---- MODULE Spec2Model ----
(***************************************************************************)
(* Model of the real-time audio engine of simplex_repeater.py              *)
(* (class SimplexRepeater): the level-triggered record/playback state      *)
(* machine of simplex mode, its monitoring thread, the duplex producer /   *)
(* consumer pipeline, the envelope follower and the threshold coupling.    *)
(*                                                                         *)
(* Units.  The configured times are integers in milliseconds and the clock *)
(* is an integer in microseconds (the code holds seconds as floats);       *)
(* levels are integers (the code holds floats), so the envelope follower   *)
(* is computed in fixed point with the division rounded down.  An audio    *)
(* chunk of the capture path is represented by its level (calculate_level  *)
(* of its samples); a chunk of the delay ring buffer by a token: Silence   *)
(* for a pre-fill chunk, Live for a chunk read from the input device.      *)
(***************************************************************************)
EXTENDS Integers, Sequences, FiniteSets, TLC

(* ------------------------------ bounds --------------------------------- *)
\* number of start_repeater calls explored; one audio_loop thread per call
MaxStarts == 2
\* loud input level (quiet input is level 0)
LoudLevel == 2000
\* timing parameters of the engine runs, in ms
RecordTimeMs == 400
StopTimeMs == 300
DeadTimeMs == 128
\* a shorter record time the record slider is moved to during a run
ShortRecordTimeMs == 200
\* slider positions of the thresholds: multiples of ThresholdStep, counted in
\* fractions 1/ScaleResolution of a level unit
ThresholdStep == 125
MaxStep == 15
ScaleResolution == 2
\* duplex pipeline: number of prepared input chunks, and the longer of the
\* two playback delays the delay slider is moved between (the other is 0)
MaxReads == 4
MaxSamples == 2
MaxPlayed == 4
DelayStepMs == 10
LongDelayMs == 400
\* a release time longer than one chunk at the lowest rate (ms)
LongFallMs == 400
\* frames of one chunk in the model of the channel layouts
ChunkFrames == 2
\* the largest magnitude a float64 holds, scaled to the integer sections
\* of the model, and the least band gain of a saved configuration that
\* the tests of _update_peaking_filter on its coefficients reject
FloatMax == 1000000
HugeGain == 40
\* the step by which the wall clock is set back (ms)
BackStepMs == 50
\* silent chunks that follow the loud ones of the echo input
EchoSilence == 3
\* the prepared input: chunks of silence before and after the loud second
LeadSilence == 2
TailSilence == 130

(* ------------------------- program constants --------------------------- *)
CHUNK == 1024
\* the lowest and the highest sample rate the rate list offers
LowRate == 8000
HighRate == 44100
\* defaults of the threshold sliders and of the attack / release sliders (ms)
StartThresholdDefault == 1000
StopThresholdDefault == 100
RiseTimeDefault == 0
FallTimeDefault == 100
\* defaults of the record, stop and dead time sliders (ms)
RecordTimeDefault == 30000
StopTimeDefault == 500
DeadTimeDefault == 2000
\* the lower end of the stop time slider (ms)
StopTimeMin == 100
\* slack of the simplex monitoring back-pressure wait
Slack == 5
\* smallest target depth of the delay ring buffer
MinDelayChunks == 2
DelayScaleTo == 1000

Loops == 1..MaxStarts
Levels == {0, LoudLevel}
Silence == 0
Live == 1

Min(a, b) == IF a < b THEN a ELSE b
Max(a, b) == IF a > b THEN a ELSE b

(* ceil(seconds * rate / chunkFrames), the time given in ms: the rounding *)
(* the specification names                                               *)
CeilChunksAt(rate, ms) == ((rate * ms) + (CHUNK * 1000) - 1) \div (CHUNK * 1000)

(* int(rate / self.CHUNK * seconds), the time given in ms *)
ChunksAt(rate, ms) == (rate * ms) \div (CHUNK * 1000)

(* the duration of one chunk at the given rate, in microseconds *)
ChunkUsAt(rate) == (CHUNK * 1000000) \div rate

(* an envelope step without the min/max against the raw level *)
UnclampedLevel(damped, level, elapsed, rise, fall) ==
    IF level > damped
    THEN IF rise = 0 THEN level
         ELSE damped + ((level - damped) * elapsed) \div (rise * 1000)
    ELSE IF fall = 0 THEN level
         ELSE damped - ((damped - level) * elapsed) \div (fall * 1000)

(* an envelope step that divides by a time constant of at least 1 ms *)
LaggingLevel(damped, level, elapsed, rise, fall) ==
    IF level > damped
    THEN Min(damped + ((level - damped) * elapsed) \div (Max(rise, 1) * 1000), level)
    ELSE Max(damped - ((damped - level) * elapsed) \div (Max(fall, 1) * 1000), level)

(* update_level: one step of the attack/release envelope follower; the *)
(* elapsed time in microseconds, the time constants in ms                *)
UpdateLevel(damped, level, elapsed, rise, fall) ==
    IF level > damped
    THEN IF rise = 0 THEN level
         ELSE Min(damped + ((level - damped) * elapsed) \div (rise * 1000), level)
    ELSE IF fall = 0 THEN level
         ELSE Max(damped - ((damped - level) * elapsed) \div (fall * 1000), level)

VARIABLES
    \* configuration, owned by the GUI thread
    start_threshold, stop_threshold, stop_scale_to,
    rise_time, fall_time, record_time, stop_time, dead_time,
    monitoring_enabled, playback_delay, is_duplex_mode, RATE,
    \* the equalizer (switch, gain per band in dB, filter state per band)
    \* and the channels of the open devices
    equalizer_enabled, eq_gains, eq_filter_states, eq_filter_states_right,
    eq_filter_sos, input_channels, output_channels,
    \* GUI state: start button enabled, stop_repeater queued by root.after,
    \* number of start_repeater calls so far
    start_enabled, pending_stop, starts,
    \* the text of the status label, the value of the progress bar, and the
    \* update_status / update_progress calls posted with root.after and not
    \* yet run
    status_label, progress, after,
    \* engine state (attributes of SimplexRepeater)
    running, is_recording, is_playing, audio_buffer, dead_time_end,
    current_damped_level, last_update_time,
    delayed_playback_buffer, delayed_playback_buffer_size,
    simplex_playback_running, duplex_recording,
    stream_in, stream_out, streams_lock,
    \* history: the chunks still to be handed to the write of the output
    \* stream before as many were as the duplex start-up put into the buffer
    lead_in,
    \* the levels of the chunks the input device delivers next; empty when
    \* the input is arbitrary
    signal,
    \* threads: pc of each audio_loop thread, of its monitor (simplex) or
    \* playback (duplex) thread, of its record thread (duplex); locals
    pc, mpc, ppc, loc

audioVars == <<equalizer_enabled, eq_gains, eq_filter_states,
              eq_filter_states_right, eq_filter_sos,
               input_channels, output_channels>>
cfgVars == <<audioVars, start_threshold, stop_threshold, stop_scale_to,
             rise_time, fall_time,
             record_time, stop_time, dead_time, playback_delay, is_duplex_mode, RATE>>
guiVars == <<start_enabled, pending_stop, starts>>
displayVars == <<status_label, progress, after>>
flagVars == <<running, is_recording, is_playing>>
envVars == <<current_damped_level, last_update_time>>
dbufVars == <<delayed_playback_buffer, delayed_playback_buffer_size>>
streamVars == <<stream_in, stream_out, lead_in>>
workerVars == <<simplex_playback_running, duplex_recording>>

vars == <<cfgVars, monitoring_enabled, guiVars, displayVars, flagVars, audio_buffer, dead_time_end,
          envVars, dbufVars, workerVars, streamVars, streams_lock, signal,
          pc, mpc, ppc, loc>>

(* time.time(), in microseconds.  The engine only ever compares the clock *)
(* with last_update_time and dead_time_end, so the time axis is kept      *)
(* relative to the clock: the clock reads 0 and Tick moves the two stored *)
(* times into the past instead.                                           *)
now == 0

(* int(self.RATE / self.CHUNK * seconds) at the current rate *)
ChunksFor(ms) == ChunksAt(RATE, ms)

(* a target depth rounded up to whole chunks *)
CeilDelayChunks(delay_ms) == Max(MinDelayChunks, CeilChunksAt(RATE, delay_ms))

(* calculate_delayed_buffer_size: max(2, int(delay_ms / 1000 * RATE / CHUNK)) *)
DelayChunks(delay_ms) == Max(MinDelayChunks, ChunksFor(delay_ms))

(* owners of self.streams_lock *)
Free == <<"free", 0>>
MainId(l) == <<"main", l>>
PlayId(l) == <<"play", l>>

(* locals of start_recording and play_audio of one audio_loop thread *)
NoLoc == [data |-> 0, chunk_count |-> 0, range_n |-> 0,
          low_level_counter |-> 0, stop_threshold |-> 0, chunks_for_stop |-> 0,
          total_chunks |-> 0, played_chunks |-> 0,
          \* the value last handed to update_progress, in whole percent
          progress_percent |-> 0,
          \* data of playback_thread: the chunks popped for one write
          unit |-> <<>>,
          \* history: the captured chunks not yet written by this playback,
          \* and whether every write so far was the next of them
          play_src |-> <<>>, play_fifo |-> TRUE,
          \* history: the loop of start_recording ended at 'if not
          \* self.running: break'
          stopped |-> FALSE]

Goto(l, p) == pc' = [pc EXCEPT ![l] = p]
MGoto(l, p) == mpc' = [mpc EXCEPT ![l] = p]
PGoto(l, p) == ppc' = [ppc EXCEPT ![l] = p]
SetLoc(l, r) == loc' = [loc EXCEPT ![l] = r]

(* no update_status / update_progress call is pending *)
NoAfter == [status |-> "", progress |-> -1]

(* self.root.after(0, self.update_status, text, ...) and                 *)
(* self.root.after(0, self.update_progress, value): the calls run in the *)
(* GUI thread in the order they were posted, so of the pending calls the *)
(* model keeps the last text and the last value ("" and -1: none)        *)
root_after(text, value) ==
    /\ after' = [status |-> IF text = "" THEN after.status ELSE text,
                 progress |-> IF value = -1 THEN after.progress ELSE value]
    /\ UNCHANGED <<status_label, progress>>

(* the input device delivers the next prepared chunk, or any level *)
Input == IF signal = <<>> THEN Levels ELSE {Head(signal)}
Consume == signal' = IF signal = <<>> THEN signal ELSE Tail(signal)

(* the chunk the duplex pipeline reads next: the next prepared chunk, or *)
(* any chunk                                                              *)
NextChunk == IF signal = <<>> THEN Live ELSE Head(signal)

TypeOK ==
    /\ running \in BOOLEAN /\ is_recording \in BOOLEAN /\ is_playing \in BOOLEAN
    /\ starts \in 0..MaxStarts
    /\ current_damped_level \in 0..LoudLevel
    /\ last_update_time <= now
    /\ dead_time_end >= now

(* the positions a threshold slider is moved to, and the integer a       *)
(* slider variable reads at a position: int(float(value))                *)
ScalePositions == {ThresholdStep * i : i \in 0..MaxStep}
IntOf(p) == p \div ScaleResolution

(* the thresholds after load_config found the given values, or the      *)
(* defaults: the stop threshold is limited to the start threshold, which *)
(* is also made the upper end of the stop slider                          *)
LoadedThresholds(start, stop) ==
    /\ start_threshold = start
    /\ stop_threshold = IF stop > start THEN start ELSE stop
    /\ stop_scale_to = start

(* the other sliders after __init__, the rate and the timing sliders as *)
(* given; below, all the sliders after __init__ without a saved file     *)
TimingAt(rate, rec, stop, dead) ==
    /\ rise_time = RiseTimeDefault
    /\ fall_time = FallTimeDefault
    /\ record_time = rec
    /\ stop_time = stop
    /\ dead_time = dead
    /\ monitoring_enabled = FALSE
    /\ playback_delay = 0
    /\ is_duplex_mode = FALSE
    /\ RATE = rate

SlidersAt(rate, rec, stop, dead) ==
    /\ LoadedThresholds(StartThresholdDefault, StopThresholdDefault)
    /\ TimingAt(rate, rec, stop, dead)

(* two bands of self.eq_bands, and the equalizer and the channels       *)
(* after __init__: switched on, every gain 0 dB, every filter state     *)
(* np.zeros((1, 2)), two channels in and out                             *)
EqBands == {1000, 6000}

(* a band that never counts as too high for the sample rate *)
NeverAboveLimit(freq, rate) == FALSE

(* _update_peaking_filter: freq >= nyquist * 0.95 with nyquist = RATE / 2 *)
AboveNyquistLimit(freq, rate) == 40 * freq >= 19 * rate

(* _init_equalizer_filters: _update_peaking_filter(band, 0.0) for every  *)
(* band, which stores None for a band at or above the limit and a       *)
(* section for the others. The section is computed again from the gain  *)
(* before every use, so the model keeps only whether one is stored.      *)
InitialSos(rate) ==
    [band \in EqBands |-> IF AboveNyquistLimit(band, rate) THEN "None" ELSE "sos"]

AudioAtRest ==
    /\ equalizer_enabled = TRUE
    /\ eq_gains = [band \in EqBands |-> 0]
    /\ eq_filter_states = [band \in EqBands |-> <<0, 0>>]
    /\ eq_filter_states_right = [band \in EqBands |-> <<0, 0>>]
    /\ eq_filter_sos = InitialSos(RATE)
    /\ input_channels = 2
    /\ output_channels = 2

(* the engine after __init__, or after a run that was stopped and whose *)
(* threads have all ended                                                *)
EngineAtRest ==
    /\ start_enabled = TRUE
    /\ pending_stop = FALSE
    /\ status_label = "Gestoppt"
    /\ progress = 0
    /\ after = NoAfter
    /\ running = FALSE
    /\ is_recording = FALSE
    /\ is_playing = FALSE
    /\ audio_buffer = <<>>
    /\ dead_time_end = 0
    /\ current_damped_level = 0
    /\ last_update_time = 0
    /\ delayed_playback_buffer = <<>>
    /\ delayed_playback_buffer_size = MinDelayChunks
    /\ simplex_playback_running = FALSE
    /\ duplex_recording = FALSE
    /\ stream_in = FALSE
    /\ stream_out = FALSE
    /\ lead_in = 0
    /\ streams_lock = Free
    /\ AudioAtRest
    /\ mpc = [l \in Loops |-> "idle"]
    /\ ppc = [l \in Loops |-> "idle"]
    /\ loc = [l \in Loops |-> NoLoc]

(* the state after __init__ *)
Init ==
    /\ SlidersAt(LowRate, RecordTimeMs, StopTimeMs, DeadTimeMs)
    /\ EngineAtRest
    /\ signal = <<>>
    /\ starts = 0
    /\ pc = [l \in Loops |-> "idle"]

(* ----------------------------- GUI thread ------------------------------ *)

(* start_repeater: the start button is enabled; a new audio_loop thread *)
start_repeater ==
    /\ start_enabled
    /\ starts < MaxStarts
    /\ running' = TRUE
    /\ start_enabled' = FALSE
    /\ starts' = starts + 1
    /\ status_label' = "Simplex Bereit"
    /\ pc' = [pc EXCEPT ![starts + 1] = "open"]
    /\ UNCHANGED <<cfgVars, monitoring_enabled, pending_stop, progress, after,
                   is_recording, is_playing,
                   audio_buffer, dead_time_end, envVars, dbufVars, workerVars,
                   streamVars, streams_lock, signal, mpc, ppc, loc>>

(* the body of stop_repeater *)
StopBody ==
    /\ running' = FALSE
    /\ is_recording' = FALSE
    /\ is_playing' = FALSE
    /\ start_enabled' = TRUE
    /\ status_label' = "Gestoppt"
    /\ progress' = 0

(* stop_repeater from the stop button, enabled once the engine was started *)
stop_repeater ==
    /\ ~start_enabled
    /\ StopBody
    /\ UNCHANGED <<cfgVars, monitoring_enabled, pending_stop, starts, after,
                   audio_buffer, dead_time_end, envVars, dbufVars, workerVars,
                   streamVars, streams_lock, signal, pc, mpc, ppc, loc>>

(* stop_repeater queued by root.after(0, self.stop_repeater) *)
stop_repeater_queued ==
    /\ pending_stop
    /\ pending_stop' = FALSE
    /\ StopBody
    /\ UNCHANGED <<cfgVars, monitoring_enabled, starts, after,
                   audio_buffer, dead_time_end, envVars, dbufVars, workerVars,
                   streamVars, streams_lock, signal, pc, mpc, ppc, loc>>

(* on_monitoring_toggle: the monitoring checkbox *)
on_monitoring_toggle ==
    /\ monitoring_enabled' = ~monitoring_enabled
    /\ UNCHANGED <<cfgVars, guiVars, displayVars, flagVars, audio_buffer, dead_time_end,
                   envVars, dbufVars, workerVars, streamVars, streams_lock, signal,
                   pc, mpc, ppc, loc>>

(* the mode switched whatever self.running is *)
ToggleAnyway ==
    /\ is_duplex_mode' = ~is_duplex_mode
    /\ UNCHANGED <<start_threshold, stop_threshold, stop_scale_to, rise_time,
                   fall_time, record_time, stop_time, dead_time, playback_delay, RATE, audioVars,
                   monitoring_enabled, guiVars, displayVars, flagVars, audio_buffer, dead_time_end,
                   envVars, dbufVars, workerVars, streamVars, streams_lock, signal,
                   pc, mpc, ppc, loc>>

(* toggle_mode: a warning and nothing else while self.running, else the  *)
(* mode is switched                                                       *)
toggle_mode ==
    IF running
    THEN UNCHANGED vars
    ELSE /\ is_duplex_mode' = ~is_duplex_mode
         /\ UNCHANGED <<start_threshold, stop_threshold, stop_scale_to, rise_time,
                        fall_time, record_time, stop_time, dead_time, playback_delay,
                        RATE, audioVars, monitoring_enabled, guiVars, displayVars, flagVars, audio_buffer,
                        dead_time_end, envVars, dbufVars, workerVars, streamVars,
                        streams_lock, signal, pc, mpc, ppc, loc>>

(* the stop threshold slider, limited by its range 0..to; it has no      *)
(* command                                                               *)
StopSliderTo(p) ==
    /\ p <= stop_scale_to * ScaleResolution
    /\ IntOf(p) # stop_threshold
    /\ stop_threshold' = IntOf(p)
    /\ UNCHANGED <<start_threshold, stop_scale_to, rise_time, fall_time, record_time,
                   stop_time, dead_time, playback_delay, is_duplex_mode, RATE, audioVars,
                   monitoring_enabled, guiVars, displayVars, flagVars, audio_buffer, dead_time_end,
                   envVars, dbufVars, workerVars, streamVars, streams_lock, signal,
                   pc, mpc, ppc, loc>>

stop_threshold_slider ==
    \E v \in {0, StopThresholdDefault} : StopSliderTo(v * ScaleResolution)

(* the start slider moved to position p without the stop threshold *)
(* following                                                        *)
StartSliderUnclamped(p) ==
    /\ start_threshold' = IntOf(p)
    /\ stop_scale_to' = IntOf(p)
    /\ UNCHANGED <<stop_threshold, rise_time, fall_time, record_time, stop_time,
                   dead_time, playback_delay, is_duplex_mode, RATE, audioVars,
                   monitoring_enabled, guiVars, displayVars, flagVars, audio_buffer, dead_time_end,
                   envVars, dbufVars, workerVars, streamVars, streams_lock, signal,
                   pc, mpc, ppc, loc>>

(* on_threshold_change: the start slider was moved to position p; its    *)
(* variable reads int(p); a stop threshold above it is pulled down, and  *)
(* the stop slider ends at it                                             *)
on_threshold_change(p) ==
    /\ start_threshold' = IntOf(p)
    /\ stop_threshold' =
          IF IntOf(p) < stop_threshold THEN IntOf(p) ELSE stop_threshold
    /\ stop_scale_to' = IntOf(p)
    /\ UNCHANGED <<rise_time, fall_time, record_time, stop_time,
                   dead_time, playback_delay, is_duplex_mode, RATE, audioVars,
                   monitoring_enabled, guiVars, displayVars, flagVars, audio_buffer, dead_time_end,
                   envVars, dbufVars, workerVars, streamVars, streams_lock, signal,
                   pc, mpc, ppc, loc>>

(* on_playback_delay_change: the delay slider was moved to delay_ms; the *)
(* target depth of the delay buffer is computed anew                      *)
on_playback_delay_change(delay_ms) ==
    /\ delay_ms # playback_delay
    /\ playback_delay' = delay_ms
    /\ delayed_playback_buffer_size' = DelayChunks(delay_ms)
    /\ UNCHANGED <<start_threshold, stop_threshold, stop_scale_to, rise_time,
                   fall_time, record_time, stop_time, dead_time, is_duplex_mode, RATE, audioVars,
                   monitoring_enabled, guiVars, displayVars, flagVars, audio_buffer, dead_time_end,
                   envVars, delayed_playback_buffer, workerVars, streamVars,
                   streams_lock, signal, pc, mpc, ppc, loc>>

(* the stop time slider *)
stop_time_slider ==
    /\ \E v \in {StopTimeMin, StopTimeMs} :
          /\ v # stop_time
          /\ stop_time' = v
    /\ UNCHANGED <<start_threshold, stop_threshold, stop_scale_to, rise_time,
                   fall_time, record_time, dead_time, playback_delay, is_duplex_mode,
                   RATE, audioVars, monitoring_enabled, guiVars, displayVars, flagVars, audio_buffer,
                   dead_time_end, envVars, dbufVars, workerVars, streamVars,
                   streams_lock, signal, pc, mpc, ppc, loc>>

(* the record time slider *)
record_time_slider ==
    /\ \E v \in {ShortRecordTimeMs, RecordTimeMs} :
          /\ v # record_time
          /\ record_time' = v
    /\ UNCHANGED <<start_threshold, stop_threshold, stop_scale_to, rise_time,
                   fall_time, stop_time, dead_time, playback_delay, is_duplex_mode,
                   RATE, audioVars, monitoring_enabled, guiVars, displayVars, flagVars, audio_buffer,
                   dead_time_end, envVars, dbufVars, workerVars, streamVars,
                   streams_lock, signal, pc, mpc, ppc, loc>>

(* One chunk duration passes.  An elapsed time of a whole time constant *)
(* or more moves the envelope all the way to the raw level, and a dead   *)
(* time that has ended has ended: older times are not told apart.        *)
Tick ==
    /\ last_update_time' = Max(last_update_time - ChunkUsAt(RATE),
                               now - 1000 * Max(rise_time, fall_time))
    /\ dead_time_end' = Max(dead_time_end - ChunkUsAt(RATE), now)
    /\ <<last_update_time', dead_time_end'>> # <<last_update_time, dead_time_end>>
    /\ UNCHANGED <<cfgVars, monitoring_enabled, guiVars, displayVars, flagVars, audio_buffer,
                   current_damped_level, dbufVars, workerVars, streamVars,
                   streams_lock, signal, pc, mpc, ppc, loc>>

(* ------------------------- audio_loop thread --------------------------- *)

(* self.update_level(level) *)
UpdateEnv(v) ==
    /\ current_damped_level' = UpdateLevel(current_damped_level, v,
                                   now - last_update_time, rise_time, fall_time)
    /\ last_update_time' = now

(* the statement after the main loop *)
AfterMainLoop == "exit"

(* where the except handlers of the main loop, of the recording loop and *)
(* of play_audio leave the thread: at the loop test, after the recording *)
(* loop, in the main loop                                                 *)
ReadExceptGoto == "read"
RecordingExceptGoto == "rec_post"
PlayExceptGoto == "read"

(* restart_audio_streams as audio_loop calls it: both streams reopened   *)
(* under the streams lock, a stream that fails to open left None; oks   *)
(* are the outcomes the devices may produce                              *)
OpenStreams(oks) ==
    /\ streams_lock = Free
    /\ \E in_ok \in oks, out_ok \in oks :
          /\ stream_in' = in_ok
          /\ stream_out' = out_ok
          /\ lead_in' = IF is_duplex_mode /\ in_ok /\ out_ok
                        THEN DelayChunks(playback_delay) ELSE 0

(* audio_loop: open the streams; on failure queue stop_repeater and      *)
(* return; else audio_loop_simplex up to the start of its playback       *)
(* thread                                                                 *)
audio_loop_simplex_start(l, oks) ==
    /\ pc[l] = "open"
    /\ ~is_duplex_mode
    /\ OpenStreams(oks)
    /\ IF stream_in' /\ stream_out'
       THEN /\ delayed_playback_buffer_size' = DelayChunks(playback_delay)
            /\ delayed_playback_buffer' =
                   [i \in 1..DelayChunks(playback_delay) |-> Silence]
            /\ simplex_playback_running' = TRUE
            /\ MGoto(l, "m_wait")
            /\ Goto(l, "read")
            /\ UNCHANGED pending_stop
       ELSE /\ Goto(l, "done")
            /\ pending_stop' = TRUE
            /\ UNCHANGED <<dbufVars, simplex_playback_running, mpc>>
    /\ UNCHANGED <<cfgVars, monitoring_enabled, start_enabled, starts, displayVars,
                   flagVars,
                   audio_buffer, dead_time_end, envVars, duplex_recording,
                   streams_lock, signal, ppc, loc>>

(* One iteration of while self.running: the chunk read under the streams *)
(* lock, the monitoring append, the level update.  A failed read is      *)
(* caught by the loop's except handler.                                   *)
simplex_read(l, oks) ==
    /\ pc[l] = "read"
    /\ IF ~running
       THEN /\ Goto(l, "exit")
            /\ UNCHANGED <<envVars, dbufVars, streams_lock, signal, loc>>
       ELSE /\ streams_lock = Free
            /\ IF ~stream_in
               THEN /\ Goto(l, "exit")
                    /\ UNCHANGED <<envVars, dbufVars, streams_lock, signal, loc>>
               ELSE \E ok \in oks, v \in Input :
                    IF ~ok
                    THEN /\ Goto(l, "read_except")
                         /\ UNCHANGED <<envVars, dbufVars, streams_lock, signal, loc>>
                    ELSE /\ Consume
                         /\ IF monitoring_enabled
                            THEN /\ delayed_playback_buffer_size' =
                                        DelayChunks(playback_delay)
                                 /\ IF Len(delayed_playback_buffer) >
                                           DelayChunks(playback_delay) + Slack
                                    THEN /\ Goto(l, "bp_wait")
                                         /\ streams_lock' = MainId(l)
                                         /\ SetLoc(l, [loc[l] EXCEPT !.data = v])
                                         /\ UNCHANGED <<envVars, delayed_playback_buffer>>
                                    ELSE /\ delayed_playback_buffer' =
                                                Append(delayed_playback_buffer, Live)
                                         /\ UpdateEnv(v)
                                         /\ Goto(l, "idle_check")
                                         /\ UNCHANGED <<streams_lock, loc>>
                            ELSE /\ UpdateEnv(v)
                                 /\ Goto(l, "idle_check")
                                 /\ UNCHANGED <<dbufVars, streams_lock, loc>>
    /\ UNCHANGED <<cfgVars, monitoring_enabled, guiVars, displayVars, flagVars, audio_buffer,
                   dead_time_end, workerVars, streamVars, mpc, ppc>>

(* except Exception in the main loop: print, sleep, next iteration *)
simplex_read_except(l) ==
    /\ pc[l] = "read_except"
    /\ Goto(l, ReadExceptGoto)
    /\ UNCHANGED <<cfgVars, monitoring_enabled, guiVars, displayVars, flagVars, audio_buffer,
                   dead_time_end, envVars, dbufVars, workerVars, streamVars,
                   streams_lock, signal, mpc, ppc, loc>>

(* while len(buffer) > size + 5: sleep, holding the streams lock; then   *)
(* the append and the level update                                        *)
simplex_bp_wait(l) ==
    /\ pc[l] = "bp_wait"
    /\ Len(delayed_playback_buffer) <= delayed_playback_buffer_size + Slack
    /\ delayed_playback_buffer' = Append(delayed_playback_buffer, Live)
    /\ UpdateEnv(loc[l].data)
    /\ streams_lock' = Free
    /\ SetLoc(l, NoLoc)
    /\ Goto(l, "idle_check")
    /\ UNCHANGED <<cfgVars, monitoring_enabled, guiVars, displayVars, flagVars, audio_buffer,
                   dead_time_end, delayed_playback_buffer_size, workerVars, streamVars,
                   signal, mpc, ppc>>

(* if not self.is_playing and not self.is_recording *)
simplex_idle_check(l) ==
    /\ pc[l] = "idle_check"
    /\ Goto(l, IF ~is_playing /\ ~is_recording THEN "dead_check" ELSE "read")
    /\ UNCHANGED <<cfgVars, monitoring_enabled, guiVars, displayVars, flagVars, audio_buffer,
                   dead_time_end, envVars, dbufVars, workerVars, streamVars,
                   streams_lock, signal, mpc, ppc, loc>>

(* if current_time < self.dead_time_end: still in the dead time *)
InDeadTime == now < dead_time_end

simplex_dead_check(l) ==
    /\ pc[l] = "dead_check"
    /\ Goto(l, IF InDeadTime THEN "read" ELSE "trigger")
    /\ IF InDeadTime THEN root_after("Totzeit", -1) ELSE UNCHANGED displayVars
    /\ UNCHANGED <<cfgVars, monitoring_enabled, guiVars, flagVars, audio_buffer,
                   dead_time_end, envVars, dbufVars, workerVars, streamVars,
                   streams_lock, signal, mpc, ppc, loc>>

(* elif self.current_damped_level > self.start_threshold_var.get() *)
Trigger == current_damped_level > start_threshold

(* the trigger test; start_recording up to its loop *)
simplex_trigger(l) ==
    /\ pc[l] = "trigger"
    /\ IF Trigger
       THEN /\ is_recording' = TRUE
            /\ audio_buffer' = <<>>
            /\ SetLoc(l, [NoLoc EXCEPT !.stop_threshold = stop_threshold,
                                        !.chunks_for_stop = ChunksFor(stop_time),
                                        !.range_n = ChunksFor(record_time)])
            /\ Goto(l, "rec_read")
            /\ root_after("Aufnahme", -1)
       ELSE /\ Goto(l, "read")
            /\ UNCHANGED <<is_recording, audio_buffer, loc, displayVars>>
    /\ UNCHANGED <<cfgVars, monitoring_enabled, guiVars, running, is_playing,
                   dead_time_end, envVars, dbufVars, workerVars, streamVars,
                   streams_lock, signal, mpc, ppc>>

(* the end of start_recording's loop: self.is_recording = False *)
RecordingEnds(l, r) ==
    /\ is_recording' = FALSE
    /\ SetLoc(l, r)
    /\ Goto(l, "rec_post")

(* the low-level counter after a chunk at the given damped level *)
CountLow(r, damped) ==
    IF damped < r.stop_threshold THEN r.low_level_counter + 1 ELSE 0

(* a break on the low-level counter two chunks late *)
LowTooLong(r, damped) ==
    damped < r.stop_threshold /\ r.low_level_counter + 1 >= r.chunks_for_stop + 2

(* the break on the low-level counter *)
LowLongEnough(r, damped) ==
    damped < r.stop_threshold /\ r.low_level_counter + 1 >= r.chunks_for_stop

(* the tail of one recording iteration: level update, low-level counter *)
RecordingAfter(l, v, r) ==
    /\ root_after("", r.progress_percent)
    /\ UpdateEnv(v)
    /\ IF LowLongEnough(r, current_damped_level')
       THEN RecordingEnds(l, [r EXCEPT
                !.low_level_counter = CountLow(r, current_damped_level')])
       ELSE /\ SetLoc(l, [r EXCEPT
                !.low_level_counter = CountLow(r, current_damped_level')])
            /\ Goto(l, "rec_read")
            /\ UNCHANGED is_recording

(* the locals of start_recording after one more chunk was read, with     *)
(* chunks_to_record as get_chunks_to_record() gave it in this iteration: *)
(* progress_percent = (chunk_count / chunks_to_record) * 100, in whole   *)
(* percent                                                                *)
ChunkCounted(r) ==
    [r EXCEPT !.chunk_count = r.chunk_count + 1,
              !.progress_percent =
                  (100 * (r.chunk_count + 1)) \div ChunksFor(record_time)]

(* a loop that tests the chunk count against its range only *)
RecordingGoesOnInRange(l) ==
    /\ loc[l].chunk_count < loc[l].range_n
    /\ running
    /\ stream_in

(* the loop of start_recording goes on to read another chunk *)
RecordingGoesOn(l) ==
    /\ loc[l].chunk_count < loc[l].range_n
    /\ running
    /\ stream_in
    /\ loc[l].chunk_count < ChunksFor(record_time)

(* One iteration of for _ in range(get_chunks_to_record()).  Every      *)
(* completed iteration reads one chunk, so the iteration index is       *)
(* chunk_count.  A failed read is caught by the loop's except handler.  *)
recording_read(l, oks) ==
    /\ pc[l] = "rec_read"
    /\ IF loc[l].chunk_count >= loc[l].range_n \/ ~running
       THEN /\ RecordingEnds(l, [loc[l] EXCEPT
                    !.stopped = loc[l].chunk_count < loc[l].range_n])
            /\ UNCHANGED <<audio_buffer, envVars, dbufVars, streams_lock, signal,
                           displayVars>>
       ELSE /\ streams_lock = Free
            /\ IF ~RecordingGoesOn(l)
               THEN /\ RecordingEnds(l, loc[l])
                    /\ UNCHANGED <<audio_buffer, envVars, dbufVars, streams_lock,
                                   signal, displayVars>>
               ELSE \E ok \in oks, v \in Input :
                    IF ~ok
                    THEN /\ Goto(l, "rec_except")
                         /\ UNCHANGED <<audio_buffer, envVars, dbufVars,
                                        streams_lock, signal, loc, is_recording,
                                        displayVars>>
                    ELSE /\ Consume
                         /\ audio_buffer' = Append(audio_buffer, v)
                         /\ IF monitoring_enabled
                            THEN /\ delayed_playback_buffer_size' =
                                        DelayChunks(playback_delay)
                                 /\ IF Len(delayed_playback_buffer) >
                                           DelayChunks(playback_delay) + Slack
                                    THEN /\ Goto(l, "rec_bp_wait")
                                         /\ streams_lock' = MainId(l)
                                         /\ SetLoc(l, [ChunkCounted(loc[l])
                                                         EXCEPT !.data = v])
                                         /\ UNCHANGED <<envVars, is_recording,
                                                        delayed_playback_buffer,
                                                        displayVars>>
                                    ELSE /\ delayed_playback_buffer' =
                                                Append(delayed_playback_buffer, Live)
                                         /\ RecordingAfter(l, v,
                                                           ChunkCounted(loc[l]))
                                         /\ UNCHANGED streams_lock
                            ELSE /\ RecordingAfter(l, v, ChunkCounted(loc[l]))
                                 /\ UNCHANGED <<dbufVars, streams_lock>>
    /\ UNCHANGED <<cfgVars, monitoring_enabled, guiVars, running, is_playing,
                   dead_time_end, workerVars, streamVars, mpc, ppc>>

(* except Exception in the recording loop: print, break; then           *)
(* self.is_recording = False                                              *)
recording_except(l) ==
    /\ pc[l] = "rec_except"
    /\ is_recording' = FALSE
    /\ Goto(l, RecordingExceptGoto)
    /\ UNCHANGED <<cfgVars, monitoring_enabled, guiVars, displayVars, running, is_playing,
                   audio_buffer, dead_time_end, envVars, dbufVars, workerVars,
                   streamVars, streams_lock, signal, mpc, ppc, loc>>

(* the back-pressure wait of the recording loop, holding the streams lock *)
recording_bp_wait(l) ==
    /\ pc[l] = "rec_bp_wait"
    /\ Len(delayed_playback_buffer) <= delayed_playback_buffer_size + Slack
    /\ delayed_playback_buffer' = Append(delayed_playback_buffer, Live)
    /\ streams_lock' = Free
    /\ RecordingAfter(l, loc[l].data, [loc[l] EXCEPT !.data = 0])
    /\ UNCHANGED <<cfgVars, monitoring_enabled, guiVars, running, is_playing,
                   audio_buffer, dead_time_end, delayed_playback_buffer_size,
                   workerVars, streamVars, signal, mpc, ppc>>

(* if self.running and len(self.audio_buffer) > 0: self.play_audio(),   *)
(* up to the playback loop; else back to the main loop                   *)
recording_post(l) ==
    /\ pc[l] = "rec_post"
    /\ IF running /\ Len(audio_buffer) > 0
       THEN /\ is_playing' = TRUE
            /\ SetLoc(l, [NoLoc EXCEPT !.total_chunks = Len(audio_buffer),
                                        !.play_src = audio_buffer])
            /\ Goto(l, "play")
            /\ root_after("Wiedergabe", -1)
       ELSE /\ SetLoc(l, NoLoc)
            /\ Goto(l, "read")
            /\ root_after("Bereit", 0)
            /\ UNCHANGED is_playing
    /\ UNCHANGED <<cfgVars, monitoring_enabled, guiVars, running, is_recording,
                   audio_buffer, dead_time_end, envVars, dbufVars, workerVars,
                   streamVars, streams_lock, signal, mpc, ppc>>

(* the dead time play_audio sets when it ends *)
DeadTimeEnd == now + 1000 * dead_time

(* the end of play_audio: is_playing = False, buffer cleared, dead time *)
PlayEnds(l) ==
    /\ is_playing' = FALSE
    /\ audio_buffer' = <<>>
    /\ dead_time_end' = DeadTimeEnd
    /\ SetLoc(l, NoLoc)

(* One iteration of while self.audio_buffer and self.running: popleft,   *)
(* equalizer, gain and channel conversion (the identity at the default   *)
(* 0 dB), stream_out.write, level update.  A failed write is caught by   *)
(* play_audio's except handler.  The model follows an episode for       *)
(* MaxPlayed writes.                                                      *)
play_audio(l, oks) ==
    /\ pc[l] = "play"
    /\ IF audio_buffer = <<>> \/ ~running
       THEN /\ PlayEnds(l)
            /\ Goto(l, "read")
            /\ root_after("Bereit", 0)
            /\ UNCHANGED envVars
       ELSE /\ loc[l].played_chunks < MaxPlayed
            /\ \E ok \in oks :
                 IF ~stream_out \/ ~ok
                 THEN /\ audio_buffer' = Tail(audio_buffer)
                      /\ Goto(l, "play_except")
                      /\ UNCHANGED <<envVars, is_playing, dead_time_end, loc,
                                     displayVars>>
                 ELSE /\ audio_buffer' = Tail(audio_buffer)
                      /\ SetLoc(l, [loc[l] EXCEPT
                             !.played_chunks = @ + 1,
                             \* 100 - ((played_chunks / total_chunks) * 100)
                             !.progress_percent =
                                 100 - ((100 * (loc[l].played_chunks + 1))
                                            \div loc[l].total_chunks),
                             !.play_src = IF @ = <<>> THEN @ ELSE Tail(@),
                             !.play_fifo = @ /\ loc[l].play_src # <<>>
                                             /\ Head(loc[l].play_src) = Head(audio_buffer)])
                      /\ UpdateEnv(Head(audio_buffer))
                      /\ root_after("", loc'[l].progress_percent)
                      /\ Goto(l, "play")
                      /\ UNCHANGED <<is_playing, dead_time_end>>
    /\ UNCHANGED <<cfgVars, monitoring_enabled, guiVars, running, is_recording,
                   dbufVars, workerVars, streamVars, streams_lock, signal, mpc, ppc>>

(* except Exception in play_audio: print; then the end of play_audio *)
play_audio_except(l) ==
    /\ pc[l] = "play_except"
    /\ PlayEnds(l)
    /\ Goto(l, PlayExceptGoto)
    /\ root_after("Bereit", 0)
    /\ UNCHANGED <<cfgVars, monitoring_enabled, guiVars, running, is_recording,
                   envVars, dbufVars, workerVars, streamVars, streams_lock, signal,
                   mpc, ppc>>

(* after the main loop: stop the playback thread (join with a timeout), *)
(* clear the delay buffer                                                *)
simplex_exit(l) ==
    /\ pc[l] = "exit"
    /\ simplex_playback_running' = FALSE
    /\ delayed_playback_buffer' = <<>>
    /\ Goto(l, "close")
    /\ UNCHANGED <<cfgVars, monitoring_enabled, guiVars, displayVars, flagVars, audio_buffer,
                   dead_time_end, envVars, delayed_playback_buffer_size,
                   duplex_recording, streamVars, streams_lock, signal, mpc, ppc, loc>>

(* audio_loop: close both streams under the streams lock *)
audio_loop_close(l) ==
    /\ pc[l] = "close"
    /\ streams_lock = Free
    /\ stream_in' = FALSE
    /\ stream_out' = FALSE
    /\ Goto(l, "done")
    /\ UNCHANGED <<cfgVars, monitoring_enabled, guiVars, displayVars, flagVars, audio_buffer,
                   dead_time_end, envVars, dbufVars, workerVars, streams_lock,
                   lead_in, signal, mpc, ppc, loc>>

(* ------------------- simplex_playback_thread (monitor) ----------------- *)

(* a buffer popped down to the target depth and not below it *)
PopDownToTarget(buf, size) == SubSeq(buf, Max(1, Len(buf) - size + 1), Len(buf))

(* data = popleft(); while len(buffer) >= size: data += popleft(), on a  *)
(* buffer that is not empty: what is left of the buffer, one chunk       *)
(* below the target depth when it was at or above it                      *)
PopToTarget(buf, size) == SubSeq(buf, Max(1, Len(buf) - size + 1) + 1, Len(buf))

(* the chunks popped on the way, concatenated into one unit in the order *)
(* they were popped                                                       *)
PoppedUnit(buf, size) == SubSeq(buf, 1, Max(1, Len(buf) - size + 1))

(* while len(buffer) < size and self.running: sleep *)
monitor_wait(l) ==
    /\ mpc[l] = "m_wait"
    /\ Len(delayed_playback_buffer) >= delayed_playback_buffer_size \/ ~running
    /\ MGoto(l, "m_loop")
    /\ UNCHANGED <<cfgVars, monitoring_enabled, guiVars, displayVars, flagVars, audio_buffer,
                   dead_time_end, envVars, dbufVars, workerVars, streamVars,
                   streams_lock, signal, pc, ppc, loc>>

(* the condition under which the monitor pops and writes *)
MonitorMayPlay ==
    /\ monitoring_enabled
    /\ ~is_playing
    /\ Len(delayed_playback_buffer) >= delayed_playback_buffer_size

(* where the except handlers of the monitor, of the duplex record thread *)
(* and of the duplex playback thread leave the thread                     *)
MonitorExceptGoto == "m_loop"
ProducerExceptGoto == "p_loop"
ConsumerExceptGoto == "c_loop"

(* loop test; pop down to the target depth, or sleep *)
monitor_loop(l) ==
    /\ mpc[l] = "m_loop"
    /\ IF ~(running /\ simplex_playback_running)
       THEN MGoto(l, "m_done") /\ UNCHANGED delayed_playback_buffer
       ELSE /\ MonitorMayPlay
            /\ delayed_playback_buffer' =
                   PopToTarget(delayed_playback_buffer, delayed_playback_buffer_size)
            /\ MGoto(l, "m_write")
    /\ UNCHANGED <<cfgVars, monitoring_enabled, guiVars, displayVars, flagVars, audio_buffer,
                   dead_time_end, envVars, delayed_playback_buffer_size, workerVars,
                   streamVars, streams_lock, signal, pc, ppc, loc>>

(* equalizer, gain, conversion, self.stream_out.write(data_for_output); *)
(* a failed write is caught by the monitor's except handler              *)
monitor_write(l, oks) ==
    /\ mpc[l] = "m_write"
    /\ \E ok \in oks :
         MGoto(l, IF ~stream_out \/ ~ok THEN "m_except" ELSE "m_loop")
    /\ UNCHANGED <<cfgVars, monitoring_enabled, guiVars, displayVars, flagVars, audio_buffer,
                   dead_time_end, envVars, dbufVars, workerVars, streamVars,
                   streams_lock, signal, pc, ppc, loc>>

(* except Exception in simplex_playback_thread: print, sleep *)
monitor_except(l) ==
    /\ mpc[l] = "m_except"
    /\ MGoto(l, MonitorExceptGoto)
    /\ UNCHANGED <<cfgVars, monitoring_enabled, guiVars, displayVars, flagVars, audio_buffer,
                   dead_time_end, envVars, dbufVars, workerVars, streamVars,
                   streams_lock, signal, pc, ppc, loc>>

(* ------------------------------ duplex mode ---------------------------- *)

(* audio_loop: open the streams; audio_loop_duplex up to the start of    *)
(* its two threads                                                        *)
audio_loop_duplex_start(l, oks) ==
    /\ pc[l] = "open"
    /\ is_duplex_mode
    /\ OpenStreams(oks)
    /\ IF stream_in' /\ stream_out'
       THEN /\ delayed_playback_buffer_size' = DelayChunks(playback_delay)
            /\ delayed_playback_buffer' =
                   [i \in 1..DelayChunks(playback_delay) |-> Silence]
            /\ duplex_recording' = TRUE
            /\ MGoto(l, "c_wait")
            /\ PGoto(l, "p_loop")
            /\ Goto(l, "d_sup")
            /\ root_after("Duplex", -1)
            /\ UNCHANGED pending_stop
       ELSE /\ Goto(l, "done")
            /\ pending_stop' = TRUE
            /\ UNCHANGED <<dbufVars, duplex_recording, mpc, ppc, displayVars>>
    /\ UNCHANGED <<cfgVars, monitoring_enabled, start_enabled, starts, flagVars,
                   audio_buffer, dead_time_end, envVars, simplex_playback_running,
                   streams_lock, signal, loc>>

(* while self.running: time.sleep(0.1): the loop is left *)
duplex_stopped(l) ==
    /\ pc[l] = "d_sup"
    /\ ~running
    /\ Goto(l, "d_exit")
    /\ UNCHANGED <<cfgVars, monitoring_enabled, guiVars, displayVars, flagVars, audio_buffer,
                   dead_time_end, envVars, dbufVars, workerVars, streamVars,
                   streams_lock, signal, mpc, ppc, loc>>

(* duplex_recording = False, the joins with a timeout, and the buffer    *)
(* cleared                                                                *)
duplex_exit(l) ==
    /\ pc[l] = "d_exit"
    /\ duplex_recording' = FALSE
    /\ delayed_playback_buffer' = <<>>
    /\ Goto(l, "close")
    /\ UNCHANGED <<cfgVars, monitoring_enabled, guiVars, displayVars, flagVars, audio_buffer,
                   dead_time_end, envVars, delayed_playback_buffer_size,
                   simplex_playback_running, streamVars, streams_lock, signal,
                   mpc, ppc, loc>>

(* record_thread: the loop test and calculate_delayed_buffer_size *)
producer_loop(l) ==
    /\ ppc[l] = "p_loop"
    /\ IF running /\ duplex_recording
       THEN /\ delayed_playback_buffer_size' = DelayChunks(playback_delay)
            /\ PGoto(l, "p_wait")
       ELSE /\ PGoto(l, "p_done")
            /\ UNCHANGED delayed_playback_buffer_size
    /\ UNCHANGED <<cfgVars, monitoring_enabled, guiVars, displayVars, flagVars, audio_buffer,
                   dead_time_end, envVars, delayed_playback_buffer, workerVars,
                   streamVars, streams_lock, signal, pc, mpc, loc>>

(* record_thread: while len(buffer) > size: sleep, the loop left; then, *)
(* in a later step, the read, taken without the streams lock, and the   *)
(* append; a failed read, or a read on a stream that is None, is caught  *)
(* by the thread's except handler                                         *)
producer_read(l, oks) ==
    /\ \/ /\ ppc[l] = "p_wait"
          /\ Len(delayed_playback_buffer) <= delayed_playback_buffer_size
          /\ PGoto(l, "p_read")
          /\ UNCHANGED <<delayed_playback_buffer, signal>>
       \/ /\ ppc[l] = "p_read"
          /\ \E ok \in oks :
               IF ~stream_in \/ ~ok
               THEN /\ PGoto(l, "p_except")
                    /\ UNCHANGED <<delayed_playback_buffer, signal>>
               ELSE /\ delayed_playback_buffer' =
                          Append(delayed_playback_buffer, NextChunk)
                    /\ Consume
                    /\ PGoto(l, "p_loop")
    /\ UNCHANGED <<cfgVars, monitoring_enabled, guiVars, displayVars, flagVars, audio_buffer,
                   dead_time_end, envVars, delayed_playback_buffer_size, workerVars,
                   streamVars, streams_lock, pc, mpc, loc>>

(* except Exception in record_thread: print, sleep *)
producer_except(l) ==
    /\ ppc[l] = "p_except"
    /\ PGoto(l, ProducerExceptGoto)
    /\ UNCHANGED <<cfgVars, monitoring_enabled, guiVars, displayVars, flagVars, audio_buffer,
                   dead_time_end, envVars, dbufVars, workerVars, streamVars,
                   streams_lock, signal, pc, mpc, loc>>

(* playback_thread: while len(buffer) < size and self.running: sleep *)
consumer_wait(l) ==
    /\ mpc[l] = "c_wait"
    /\ Len(delayed_playback_buffer) >= delayed_playback_buffer_size \/ ~running
    /\ MGoto(l, "c_loop")
    /\ UNCHANGED <<cfgVars, monitoring_enabled, guiVars, displayVars, flagVars, audio_buffer,
                   dead_time_end, envVars, dbufVars, workerVars, streamVars,
                   streams_lock, signal, pc, ppc, loc>>

(* playback_thread: the loop test and the test of the occupancy against *)
(* the target depth (else a sleep); then, in a later step, the streams   *)
(* lock taken and the pops down below the target; a popleft on an empty  *)
(* buffer raises; the buffer is cleared when the loop is left             *)
consumer_loop(l) ==
    /\ \/ /\ mpc[l] = "c_loop"
          /\ IF ~running
             THEN /\ delayed_playback_buffer' = <<>>
                  /\ MGoto(l, "c_done")
             ELSE /\ Len(delayed_playback_buffer) >= delayed_playback_buffer_size
                  /\ MGoto(l, "c_pop")
                  /\ UNCHANGED delayed_playback_buffer
          /\ UNCHANGED <<streams_lock, loc>>
       \/ /\ mpc[l] = "c_pop"
          /\ streams_lock = Free
          /\ IF ~stream_out
             THEN /\ delayed_playback_buffer' = <<>>
                  /\ MGoto(l, "c_done")
                  /\ UNCHANGED <<streams_lock, loc>>
             ELSE IF delayed_playback_buffer = <<>>
             THEN /\ MGoto(l, "c_except")
                  /\ UNCHANGED <<delayed_playback_buffer, streams_lock, loc>>
             ELSE /\ delayed_playback_buffer' =
                        PopToTarget(delayed_playback_buffer,
                                    delayed_playback_buffer_size)
                  /\ SetLoc(l, [loc[l] EXCEPT !.unit =
                        PoppedUnit(delayed_playback_buffer,
                                   delayed_playback_buffer_size)])
                  /\ streams_lock' = PlayId(l)
                  /\ MGoto(l, "c_write")
    /\ UNCHANGED <<cfgVars, monitoring_enabled, guiVars, displayVars, flagVars, audio_buffer,
                   dead_time_end, envVars, delayed_playback_buffer_size, workerVars,
                   streamVars, signal, pc, ppc>>

(* playback_thread: equalizer, gain, conversion and the write, under the *)
(* streams lock; a failed write is caught by the thread's except handler *)
consumer_write(l, oks) ==
    /\ mpc[l] = "c_write"
    /\ streams_lock' = Free
    /\ SetLoc(l, [loc[l] EXCEPT !.unit = <<>>])
    /\ lead_in' = Max(0, lead_in - Len(loc[l].unit))
    /\ \E ok \in oks :
         MGoto(l, IF ok THEN "c_loop" ELSE "c_except")
    /\ UNCHANGED <<cfgVars, monitoring_enabled, guiVars, displayVars, flagVars, audio_buffer,
                   dead_time_end, envVars, dbufVars, workerVars, stream_in,
                   stream_out, signal, pc, ppc>>

(* except Exception in playback_thread: print, sleep *)
consumer_except(l) ==
    /\ mpc[l] = "c_except"
    /\ MGoto(l, ConsumerExceptGoto)
    /\ UNCHANGED <<cfgVars, monitoring_enabled, guiVars, displayVars, flagVars, audio_buffer,
                   dead_time_end, envVars, dbufVars, workerVars, streamVars,
                   streams_lock, signal, pc, ppc, loc>>

(* ------------------------------ the engine ----------------------------- *)

SimplexStep(l, oks) ==
    \/ audio_loop_simplex_start(l, oks)
    \/ simplex_read(l, oks)
    \/ simplex_read_except(l)
    \/ simplex_idle_check(l)
    \/ simplex_dead_check(l)
    \/ simplex_trigger(l)
    \/ recording_read(l, oks)
    \/ recording_except(l)
    \/ recording_post(l)
    \/ play_audio(l, oks)
    \/ play_audio_except(l)
    \/ simplex_exit(l)
    \/ audio_loop_close(l)

MonitorStep(l, oks) ==
    \/ simplex_bp_wait(l)
    \/ recording_bp_wait(l)
    \/ monitor_wait(l)
    \/ monitor_loop(l)
    \/ monitor_write(l, oks)
    \/ monitor_except(l)

DuplexStep(l, oks) ==
    \/ audio_loop_duplex_start(l, oks)
    \/ duplex_stopped(l)
    \/ duplex_exit(l)
    \/ producer_loop(l)
    \/ producer_read(l, oks)
    \/ producer_except(l)
    \/ consumer_wait(l)
    \/ consumer_loop(l)
    \/ consumer_write(l, oks)
    \/ consumer_except(l)

(* The engine in simplex mode with monitoring off, under any sequence of  *)
(* start and stop requests: a new audio_loop thread per start, the old    *)
(* one not joined.                                                        *)
Next ==
    \/ start_repeater
    \/ stop_repeater
    \/ stop_repeater_queued
    \/ Tick
    \/ \E l \in Loops : SimplexStep(l, BOOLEAN)

Spec == Init /\ [][Next]_vars

(* One run of the engine, in either mode, with the monitoring checkbox:   *)
(* the last start the bound allows, every earlier run stopped and ended.  *)
InitRun ==
    /\ SlidersAt(LowRate, RecordTimeMs, StopTimeMs, DeadTimeMs)
    /\ EngineAtRest
    /\ signal = <<>>
    /\ starts = MaxStarts - 1
    /\ pc = [l \in Loops |-> IF l < MaxStarts THEN "done" ELSE "idle"]

NextRun ==
    \/ start_repeater
    \/ stop_repeater
    \/ stop_repeater_queued
    \/ Tick
    \/ on_monitoring_toggle
    \/ toggle_mode
    \/ \E l \in Loops : SimplexStep(l, BOOLEAN)
    \/ \E l \in Loops : MonitorStep(l, BOOLEAN)
    \/ \E l \in Loops : DuplexStep(l, BOOLEAN)

SpecRun == InitRun /\ [][NextRun]_vars

(* One run of the engine in simplex mode with monitoring off, the stop    *)
(* threshold, stop time and record time sliders moved while it runs.      *)
NextSliders ==
    \/ start_repeater
    \/ stop_repeater
    \/ stop_repeater_queued
    \/ Tick
    \/ stop_threshold_slider
    \/ stop_time_slider
    \/ record_time_slider
    \/ \E l \in Loops : SimplexStep(l, BOOLEAN)

SpecSliders == InitRun /\ [][NextSliders]_vars

(* The threshold sliders alone: load_config found two levels in the     *)
(* file, each a default or an end of the slider range modelled, then     *)
(* both sliders are moved.                                                *)
SavedLevels ==
    {StartThresholdDefault, StopThresholdDefault, 0, IntOf(ThresholdStep * MaxStep)}

InitThreshold ==
    /\ \E start, stop \in SavedLevels : LoadedThresholds(start, stop)
    /\ TimingAt(LowRate, RecordTimeMs, StopTimeMs, DeadTimeMs)
    /\ EngineAtRest
    /\ signal = <<>>
    /\ starts = 0
    /\ pc = [l \in Loops |-> "idle"]

NextThreshold ==
    \/ \E p \in ScalePositions : on_threshold_change(p)
    \/ \E p \in ScalePositions : StopSliderTo(p)

SpecThreshold == InitThreshold /\ [][NextThreshold]_vars

(* The duplex pipeline: the mode switched while stopped, the engine     *)
(* started in duplex mode, stopped and started again, the delay slider   *)
(* moved while it runs; the input delivers MaxReads numbered chunks and  *)
(* every device call succeeds.                                            *)
InitDuplex ==
    /\ SlidersAt(LowRate, RecordTimeMs, StopTimeMs, DeadTimeMs)
    /\ EngineAtRest
    /\ signal = [i \in 1..MaxReads |-> i + Live]
    /\ starts = 0
    /\ pc = [l \in Loops |-> "idle"]

(* a read of the input returns only while prepared chunks are left *)
InputLeft(l) == (ppc[l] = "p_read" /\ ppc'[l] = "p_loop") => signal # <<>>

NextDuplex(oks) ==
    \/ start_repeater /\ is_duplex_mode
    \/ stop_repeater
    \/ toggle_mode
    \/ \E d \in {0, LongDelayMs} : on_playback_delay_change(d)
    \/ \E l \in Loops : DuplexStep(l, oks) /\ InputLeft(l)

SpecDuplex == InitDuplex /\ [][NextDuplex({TRUE})]_vars

(* The same with one run of the engine, device calls failing or not; a  *)
(* failed open queues stop_repeater.                                     *)
InitDuplexRun ==
    /\ SlidersAt(LowRate, RecordTimeMs, StopTimeMs, DeadTimeMs)
    /\ EngineAtRest
    /\ signal = [i \in 1..MaxReads |-> i + Live]
    /\ starts = MaxStarts - 1
    /\ pc = [l \in Loops |-> IF l < MaxStarts THEN "done" ELSE "idle"]

SpecDuplexRun ==
    InitDuplexRun /\ [][NextDuplex(BOOLEAN) \/ stop_repeater_queued]_vars

(* The prepared input of the trigger scenario: silence, a constant loud   *)
(* level for one second, silence.                                          *)
LoudChunks == ChunksAt(HighRate, 1000)

ScenarioSignal ==
    [i \in 1..(LeadSilence + LoudChunks + TailSilence) |->
        IF i > LeadSilence /\ i <= LeadSilence + LoudChunks THEN LoudLevel ELSE 0]

(* One run in simplex mode on the prepared input at 44100 Hz with the     *)
(* default sliders and healthy devices, not stopped.  The device paces    *)
(* the thread: one chunk duration passes per chunk read or written.       *)
InitScenario ==
    /\ SlidersAt(HighRate, RecordTimeDefault, StopTimeDefault, DeadTimeDefault)
    /\ EngineAtRest
    /\ signal = ScenarioSignal
    /\ starts = MaxStarts - 1
    /\ pc = [l \in Loops |-> IF l < MaxStarts THEN "done" ELSE "idle"]

(* the thread is about to read or write a chunk *)
DeviceCall(l) == pc[l] \in {"read", "rec_read", "play"}

NextScenario ==
    \/ start_repeater
    \/ Tick /\ last_update_time = now
    \/ \E l \in Loops :
          /\ DeviceCall(l) => last_update_time < now
          /\ pc[l] \in {"read", "rec_read"} => signal # <<>>
          /\ SimplexStep(l, {TRUE})

SpecScenario == InitScenario /\ [][NextScenario]_vars

(* ------------------------------- claims -------------------------------- *)

(* C1: in every reachable state, under any interleaving of start_repeater, *)
(* stop_repeater and the audio_loop threads, is_recording and is_playing   *)
(* are never both true.                                                     *)
C1_RecordingPlayingExclusive == ~(is_recording /\ is_playing)

(* a step in which thread l begins a Recording episode *)
RecordingBegins(l) == pc[l] = "trigger" /\ pc'[l] = "rec_read"

(* neither Recording nor Playing is active, the dead time is over and the *)
(* damped level is above the start threshold                              *)
MayBegin ==
    /\ ~is_recording /\ ~is_playing
    /\ now >= dead_time_end
    /\ current_damped_level > start_threshold

(* C2: in simplex mode a Recording episode begins only in a step where    *)
(* neither Recording nor Playing is active, now >= deadTimeEnd and the    *)
(* damped level is strictly greater than start_threshold; and whenever    *)
(* those conditions hold when the idle branch decides, Recording begins   *)
(* with an empty capture buffer.                                          *)
C2_RecordingBeginsWhenIdleAndLoud ==
    [][\A l \in Loops :
          /\ RecordingBegins(l) => MayBegin /\ audio_buffer' = <<>>
          /\ (pc[l] = "trigger" /\ pc'[l] # "trigger" /\ MayBegin)
                => RecordingBegins(l) /\ audio_buffer' = <<>>]_vars

(* a step of thread l *)
StepOf(l) == pc'[l] # pc[l] \/ loc'[l] # loc[l]

(* thread l is in the loop of start_recording *)
InRecordingLoop(l) == pc[l] \in {"rec_read", "rec_bp_wait"}

(* a step in which the recording loop of thread l finishes a chunk: it   *)
(* was read and captured, and its level has updated the envelope          *)
ChunkProcessed(l) ==
    \/ pc[l] = "rec_read" /\ pc'[l] # "rec_bp_wait"
                          /\ loc'[l].chunk_count = loc[l].chunk_count + 1
    \/ pc[l] = "rec_bp_wait" /\ pc'[l] # "rec_bp_wait"

(* a step in which the read of the recording loop fails *)
RecordingReadFails(l) == pc[l] = "rec_read" /\ pc'[l] = "rec_except"

(* a step in which the recording loop of thread l ends, other than by a  *)
(* failed read                                                            *)
RecordingLoopEnds(l) == InRecordingLoop(l) /\ pc'[l] = "rec_post"

(* the number of whole chunks in the given time, rounded down *)
FloorChunks(ms) == (RATE * ms) \div (CHUNK * 1000)

(* C3 as the specification states it: Recording ends only when           *)
(* belowCounter >= ceil(stop_time * rate / chunkFrames), or the number   *)
(* of captured chunks >= ceil(record_time * rate / chunkFrames), or the  *)
(* engine is stopped, and not earlier (a failed read set aside).          *)
C3_EndsAtCeil ==
    [][\A l \in Loops :
          (RecordingLoopEnds(l) /\ stream_in)
            => \/ loc'[l].low_level_counter >= CeilChunksAt(RATE, stop_time)
               \/ loc'[l].chunk_count >= CeilChunksAt(RATE, record_time)
               \/ ~running]_vars

(* C3, amended: when Recording begins the stop threshold and             *)
(* int(RATE / CHUNK * stop_time) are fixed for the episode and the       *)
(* counter is 0; each processed chunk increments the counter if the      *)
(* damped level is below that threshold and resets it to 0 otherwise;    *)
(* and the recording loop ends exactly when the damped level is below    *)
(* the threshold with the counter >= int(RATE / CHUNK * stop_time), or   *)
(* the captured chunks reach int(RATE / CHUNK * record_time) (as at the  *)
(* start, or as set now), or running is false, or the input stream is    *)
(* None, or a read fails.                                                 *)
C3_CounterAndEnd ==
    [][\A l \in Loops :
          /\ RecordingBegins(l) =>
                /\ loc'[l].stop_threshold = stop_threshold
                /\ loc'[l].chunks_for_stop = FloorChunks(stop_time)
                /\ loc'[l].range_n = FloorChunks(record_time)
                /\ loc'[l].low_level_counter = 0
                /\ loc'[l].chunk_count = 0
          /\ (InRecordingLoop(l) /\ StepOf(l)) =>
                /\ loc'[l].stop_threshold = loc[l].stop_threshold
                /\ loc'[l].chunks_for_stop = loc[l].chunks_for_stop
                /\ loc'[l].range_n = loc[l].range_n
                /\ loc'[l].low_level_counter =
                      IF ChunkProcessed(l)
                      THEN IF current_damped_level' < loc[l].stop_threshold
                           THEN loc[l].low_level_counter + 1 ELSE 0
                      ELSE loc[l].low_level_counter
                /\ pc'[l] = "rec_post" <=>
                      \/ /\ ChunkProcessed(l)
                         /\ current_damped_level' < loc[l].stop_threshold
                         /\ loc'[l].low_level_counter >= loc[l].chunks_for_stop
                      \/ /\ pc[l] = "rec_read"
                         /\ \/ loc[l].chunk_count >= loc[l].range_n
                            \/ loc[l].chunk_count >= FloorChunks(record_time)
                            \/ ~running
                            \/ ~stream_in
          /\ pc[l] = "rec_except" => pc'[l] \in {"rec_except", "rec_post"}]_vars

(* a recording loop has ended on the low-level counter, after fewer      *)
(* chunks than the specification's rounding asks for                      *)
C3_Witness ==
    \E l \in Loops :
        /\ pc[l] = "rec_post"
        /\ loc[l].low_level_counter > 0
        /\ loc[l].low_level_counter = FloorChunks(stop_time)
        /\ loc[l].low_level_counter < CeilChunksAt(RATE, stop_time)
        /\ loc[l].chunk_count < loc[l].range_n

(* what is left of the prepared input once the first loud chunk was read *)
AfterFirstLoud == LoudChunks + TailSilence - 1

PlayingExhausted(l) ==
    pc[l] = "play" /\ pc'[l] = "read" /\ running /\ audio_buffer = <<>>

(* C5: a Playing episode that starts with a capture buffer of N chunks   *)
(* produces exactly N output writes, one per captured chunk, in capture  *)
(* order, and leaves the capture buffer empty (an episode cut short by   *)
(* a stop or by a failed write set aside).                                *)
C5_PlaysEveryChunkInOrder ==
    [][\A l \in Loops :
          PlayingExhausted(l) =>
              /\ loc[l].play_src = <<>>
              /\ loc[l].play_fifo
              /\ audio_buffer' = <<>>]_vars

(* a step in which the Playing episode of thread l ends *)
PlayingEnds(l) == pc[l] \in {"play", "play_except"} /\ pc'[l] = "read"

(* C6: when a Playing episode ends, deadTimeEnd is set to the time       *)
(* playback ended plus dead_time and the engine is back in Idle/DeadTime *)
(* (neither Recording nor Playing, the thread in its main loop); and no  *)
(* Recording episode begins before deadTimeEnd, whatever the damped      *)
(* level is.                                                              *)
C6_DeadTimeAfterPlaying ==
    [][\A l \in Loops :
          /\ PlayingEnds(l) =>
                /\ dead_time_end' = now + 1000 * dead_time
                /\ ~is_playing' /\ ~is_recording'
                /\ pc'[l] = "read"
          /\ RecordingBegins(l) => now >= dead_time_end]_vars

(* a step in which the monitor thread of loop l writes to the output *)
MonitorWrites(l) == mpc[l] = "m_write" /\ mpc'[l] = "m_loop"

(* C7: in simplex mode every monitor write happens in a state where      *)
(* is_recording and is_playing are both false.                            *)
C7_MonitorWritesOnlyWhenIdle ==
    [][\A l \in Loops : MonitorWrites(l) => ~is_recording /\ ~is_playing]_vars

AllExited ==
    \A l \in Loops :
        /\ pc[l] \in {"idle", "done"}
        /\ mpc[l] \in {"idle", "m_done", "c_done"}
        /\ ppc[l] \in {"idle", "p_done"}

(* a step of some processing thread, every device call returning *)
ThreadsStep ==
    \E l \in Loops :
        SimplexStep(l, BOOLEAN) \/ MonitorStep(l, BOOLEAN) \/ DuplexStep(l, BOOLEAN)

(* C9: once running is false and no restart follows, every processing    *)
(* thread exits, from the recording loop and from a back-pressure wait   *)
(* too: as long as one has not ended, some thread can take a step; and   *)
(* an audio_loop that opened both streams has closed them when it ends.  *)
C9_StoppedThreadsExit ==
    ~running =>
        /\ AllExited \/ ENABLED ThreadsStep
        /\ \A l \in Loops :
              (pc[l] = "done" /\ mpc[l] # "idle") => ~stream_in /\ ~stream_out

(* C10: a failed device read or write never ends its thread while        *)
(* running is true: each except handler leaves the thread in its loop,   *)
(* each loop test goes on while running is true, a failed read in        *)
(* Recording ends the recording only, a failed write in Playing ends the *)
(* playback only, and both lead back to the main loop.                    *)
C10_FailureKeepsThreadAlive ==
    [][\A l \in Loops :
          /\ pc[l] = "read_except" => pc'[l] \in {"read_except", "read"}
          /\ (pc[l] = "read" /\ running /\ stream_in)
                => pc'[l] \in {"read", "read_except", "bp_wait", "idle_check"}
          /\ pc[l] = "rec_except"
                => \/ pc'[l] = "rec_except"
                   \/ pc'[l] = "rec_post" /\ ~is_recording'
          /\ pc[l] = "rec_post" => pc'[l] \in {"rec_post", "play", "read"}
          /\ pc[l] = "play_except"
                => \/ pc'[l] = "play_except"
                   \/ pc'[l] = "read" /\ ~is_playing' /\ audio_buffer' = <<>>
          /\ mpc[l] = "m_except" => mpc'[l] \in {"m_except", "m_loop"}
          /\ (mpc[l] = "m_loop" /\ running /\ simplex_playback_running)
                => mpc'[l] \in {"m_loop", "m_write"}
          /\ ppc[l] = "p_except" => ppc'[l] \in {"p_except", "p_loop"}
          /\ (ppc[l] = "p_loop" /\ running /\ duplex_recording)
                => ppc'[l] \in {"p_loop", "p_wait"}
          /\ mpc[l] = "c_except" => mpc'[l] \in {"c_except", "c_loop"}
          /\ (mpc[l] = "c_loop" /\ running)
                => mpc'[l] \in {"c_loop", "c_pop"}
          /\ (mpc[l] = "c_pop" /\ stream_out)
                => mpc'[l] \in {"c_pop", "c_write", "c_except"}]_vars

(* a read has just failed inside Recording, the engine running and the   *)
(* input stream open                                                      *)
C10_Witness ==
    \E l \in Loops :
        /\ pc[l] = "rec_except"
        /\ running /\ is_recording /\ stream_in
        /\ audio_buffer # <<>>

(* a step in which audio_loop thread l comes back from                   *)
(* restart_audio_streams without one of the two streams                   *)
OpenFails(l) ==
    pc[l] = "open" /\ pc'[l] # "open" /\ ~(stream_in' /\ stream_out')

(* the audio_loop thread of the latest start_repeater has ended without  *)
(* starting a mode loop: its streams did not open                         *)
OpenFailed == starts > 0 /\ pc[starts] = "done" /\ mpc[starts] = "idle"

(* a step in which thread l has read a chunk from the input device *)
ChunkRead(l) ==
    \/ pc[l] = "read" /\ pc'[l] \in {"idle_check", "bp_wait"}
    \/ pc[l] = "rec_read"
          /\ \/ pc'[l] = "rec_bp_wait"
             \/ loc'[l].chunk_count > loc[l].chunk_count
    \/ ppc[l] = "p_read" /\ ppc'[l] = "p_loop"
          /\ Len(delayed_playback_buffer') > Len(delayed_playback_buffer)

(* a step in which thread l has written a chunk to the output device *)
ChunkWritten(l) ==
    \/ pc[l] = "play" /\ pc'[l] = "play" /\ audio_buffer # <<>>
    \/ mpc[l] = "m_write" /\ mpc'[l] = "m_loop"
    \/ mpc[l] = "c_write" /\ mpc'[l] = "c_loop"

(* C11: if opening the input or the output stream fails at start, the    *)
(* engine does not start: audio_loop enters neither mode loop and has    *)
(* stop_repeater called, which leaves running false; and from then on,   *)
(* until the next start, no chunk is read or written.                     *)
C11_FailedOpenDoesNotStart ==
    /\ [](OpenFailed /\ ~pending_stop => ~running)
    /\ [][/\ (\A l \in Loops :
                 OpenFails(l) =>
                     /\ pc'[l] = "done" /\ mpc'[l] = "idle" /\ ppc'[l] = "idle"
                     /\ pending_stop')
            /\ (OpenFailed => \A l \in Loops : ~ChunkRead(l) /\ ~ChunkWritten(l))
            /\ ((pending_stop /\ ~pending_stop') => ~running')]_vars

(* the chunks popped by the playback threads and not yet written *)
RECURSIVE UnitsUpTo(_)
UnitsUpTo(n) == IF n = 0 THEN <<>> ELSE UnitsUpTo(n - 1) \o loc[n].unit

(* the chunks on their way to the output: popped, buffered, still to be  *)
(* read, in this order                                                    *)
Pipeline == UnitsUpTo(MaxStarts) \o delayed_playback_buffer \o signal

(* a duplex loop has started its two threads and waits for the stop *)
DuplexStreaming == \E l \in Loops : pc[l] = "d_sup"

(* a step in which the playback thread of loop l ends its write call *)
UnitWriteEnds(l) == mpc[l] = "c_write" /\ mpc'[l] \in {"c_loop", "c_except"}

(* C12: in duplex mode, while running, the chunks written to the output  *)
(* are the pre-fill silence chunks followed by the input chunks in the   *)
(* order they were read: a step changes the chunks on their way to the   *)
(* output only by a write call taking a unit of chunks from their head   *)
(* (a failed write set aside), also when the delay parameter changes.    *)
C12_DuplexFifo ==
    [][(running /\ running' /\ DuplexStreaming) =>
          \/ Pipeline' = Pipeline
          \/ \E l \in Loops :
                UnitWriteEnds(l) /\ Pipeline = loc[l].unit \o Pipeline']_vars

(* the occupancy of the delay buffer is within one chunk of its target   *)
(* depth                                                                  *)
NearTarget ==
    /\ Len(delayed_playback_buffer) >= delayed_playback_buffer_size - 1
    /\ Len(delayed_playback_buffer) <= delayed_playback_buffer_size + 1

(* C13: in duplex mode with a constant delay parameter the occupancy of  *)
(* the delay buffer stays within one chunk of the target depth: it is    *)
(* there when a duplex loop has started its threads, and while running   *)
(* no step that leaves the delay parameter alone takes it out of there.  *)
C13_OccupancyNearTarget ==
    [][/\ (\A l \in Loops : (pc[l] = "open" /\ pc'[l] = "d_sup") => NearTarget')
       /\ (running /\ running' /\ DuplexStreaming /\ NearTarget
             /\ playback_delay' = playback_delay) => NearTarget']_vars

(* a record thread is alive to fill the delay buffer, or a playback      *)
(* thread to drain it, whichever the occupancy asks for                   *)
CanConverge ==
    IF Len(delayed_playback_buffer) < delayed_playback_buffer_size
    THEN /\ duplex_recording /\ stream_in
         /\ \E l \in Loops : ppc[l] \in {"p_loop", "p_wait", "p_read", "p_except"}
    ELSE /\ stream_out
         /\ \E l \in Loops : mpc[l] \in {"c_wait", "c_loop", "c_pop", "c_write", "c_except"}

(* C14: after a live change of the delay parameter in duplex mode the    *)
(* occupancy comes within one chunk of the new target depth: while the   *)
(* engine is running and streaming with the occupancy further away, a    *)
(* record thread (below the target) or a playback thread (above it) is   *)
(* alive to bring it there; and the occupancy only grows to at most one  *)
(* chunk above the target depth configured at that time.                  *)
C14_OccupancyConverges ==
    /\ []((running /\ DuplexStreaming /\ ~NearTarget) => CanConverge)
    /\ [][Len(delayed_playback_buffer') > Len(delayed_playback_buffer)
            => Len(delayed_playback_buffer') <= delayed_playback_buffer_size' + 1]_vars

(* C15: the mode never changes while the engine is running: a step that  *)
(* changes is_duplex_mode, toggle_mode included, is taken with running   *)
(* false.                                                                 *)
C15_ModeFixedWhileRunning ==
    [][is_duplex_mode' # is_duplex_mode => ~running /\ ~running']_vars

(* the mode was switched while stopped and the engine runs in it *)
C15_Witness ==
    /\ is_duplex_mode /\ running
    /\ \E l \in Loops : pc[l] = "d_sup"


(* C16: every progress value reported lies in 0..100; within a Recording *)
(* episode the values never decrease; within a Playing episode they      *)
(* never increase and the value for the last chunk is 0; also when       *)
(* record_time is changed while recording.  A value is reported in the   *)
(* step that counts a recorded chunk or a played chunk.                   *)
C16_ProgressMonotone ==
    [][\A l \in Loops :
          /\ loc'[l].chunk_count = loc[l].chunk_count + 1 =>
                /\ loc'[l].progress_percent \in 0..100
                /\ loc'[l].progress_percent >= loc[l].progress_percent
          /\ loc'[l].played_chunks = loc[l].played_chunks + 1 =>
                /\ loc'[l].progress_percent \in 0..100
                /\ (loc[l].played_chunks > 0 =>
                       loc'[l].progress_percent <= loc[l].progress_percent)
                /\ (audio_buffer' = <<>> => loc'[l].progress_percent = 0)]_vars


(* ------------------------- the envelope alone -------------------------- *)

(* the raw levels calculate_level returns *)
RawLevels == {0, LoudLevel \div 4, LoudLevel \div 2, LoudLevel}

(* The engine at rest after a run: the envelope as the last run left it, *)
(* 0 to 150 ms ago, the attack and release sliders at 0 ms, at half the  *)
(* default release time, at it, or at twice it.                           *)
InitLevel ==
    /\ LoadedThresholds(StartThresholdDefault, StopThresholdDefault)
    /\ rise_time \in {0, FallTimeDefault \div 2, FallTimeDefault, 2 * FallTimeDefault}
    /\ fall_time \in {0, FallTimeDefault \div 2, FallTimeDefault, 2 * FallTimeDefault}
    /\ record_time = RecordTimeMs
    /\ stop_time = StopTimeMs
    /\ dead_time = DeadTimeMs
    /\ monitoring_enabled = FALSE
    /\ playback_delay = 0
    /\ is_duplex_mode = FALSE
    /\ RATE = LowRate
    /\ start_enabled = TRUE
    /\ pending_stop = FALSE
    /\ status_label = "Gestoppt"
    /\ progress = 0
    /\ after = NoAfter
    /\ running = FALSE
    /\ is_recording = FALSE
    /\ is_playing = FALSE
    /\ audio_buffer = <<>>
    /\ dead_time_end = 0
    /\ current_damped_level \in {0, LoudLevel \div 2}
    /\ last_update_time \in {now - 1000 * e : e \in {0, 10, 25, 50, 100, 150}}
    /\ delayed_playback_buffer = <<>>
    /\ delayed_playback_buffer_size = MinDelayChunks
    /\ simplex_playback_running = FALSE
    /\ duplex_recording = FALSE
    /\ stream_in = FALSE
    /\ stream_out = FALSE
    /\ lead_in = 0
    /\ streams_lock = Free
    /\ AudioAtRest
    /\ mpc = [l \in Loops |-> "idle"]
    /\ ppc = [l \in Loops |-> "idle"]
    /\ loc = [l \in Loops |-> NoLoc]
    /\ signal = <<>>
    /\ starts = 0
    /\ pc = [l \in Loops |-> "idle"]

(* self.update_level(level), called with a raw level *)
update_level(level) ==
    /\ UpdateEnv(level)
    /\ UNCHANGED <<cfgVars, monitoring_enabled, guiVars, displayVars, flagVars, audio_buffer,
                   dead_time_end, dbufVars, workerVars, streamVars, streams_lock,
                   signal, pc, mpc, ppc, loc>>

SpecLevel ==
    InitLevel /\ [][Tick \/ \E level \in RawLevels : update_level(level)]_vars

(* the damped level after the next update with the given raw level *)
NextDamped(level) ==
    UpdateLevel(current_damped_level, level, now - last_update_time,
                rise_time, fall_time)

(* C17: for an elapsed time >= 0 and a positive time constant, the new   *)
(* damped level of one envelope update lies between the previous damped  *)
(* level and the raw level, both included.                                *)
C17_UpdateBetween ==
    \A level \in RawLevels :
        (/\ now - last_update_time >= 0
         /\ (IF level > current_damped_level THEN rise_time ELSE fall_time) > 0)
        => /\ Min(current_damped_level, level) <= NextDamped(level)
           /\ NextDamped(level) <= Max(current_damped_level, level)

(* an update with positive time constants has moved the envelope part of *)
(* the way                                                                *)
C17_Witness ==
    /\ rise_time > 0 /\ fall_time > 0
    /\ last_update_time = now
    /\ current_damped_level \notin RawLevels

(* C18: with an attack time of 0 an update with a raw level above the    *)
(* damped level gives the raw level; with a release time of 0 an update  *)
(* with a raw level at or below the damped level gives the raw level.    *)
C18_ZeroTimeNoLag ==
    \A level \in RawLevels :
        /\ (rise_time = 0 /\ level > current_damped_level)
                => NextDamped(level) = level
        /\ (fall_time = 0 /\ level <= current_damped_level)
                => NextDamped(level) = level

(* with both times 0 the envelope has jumped to the loudest raw level *)
C18_Witness ==
    /\ rise_time = 0 /\ fall_time = 0
    /\ last_update_time = now
    /\ current_damped_level = LoudLevel


(* ------------------- the equalizer and the channels -------------------- *)

(* 16-bit samples, and the chunks read from the device: the chunks of    *)
(* the model are shorter than CHUNK samples                               *)
Chunks == UNION {[1..n -> {-32768, 12000, 32767}] : n \in 1..MaxSamples}

(* astype(np.int16) of the quotient a / b, b > 0: towards zero *)
TruncDiv(a, b) == IF a >= 0 THEN a \div b ELSE -((-a) \div b)

(* a stereo-to-mono conversion that adds the two channels in 16 bits *)
ConvertInInt16(data, from_channels, to_channels) ==
    IF from_channels = to_channels THEN data
    ELSE IF from_channels = 2 /\ to_channels = 1
    THEN [i \in 1..(Len(data) \div 2) |->
             TruncDiv(((data[2 * i - 1] + data[2 * i] + 32768) % 65536) - 32768, 2)]
    ELSE IF from_channels = 1 /\ to_channels = 2
    THEN [i \in 1..(2 * Len(data)) |-> data[(i + 1) \div 2]]
    ELSE data

(* convert_channels: stereo to mono by the mean of the two channels      *)
(* (computed in float64), mono to stereo by duplicating each sample      *)
convert_channels(data, from_channels, to_channels) ==
    IF from_channels = to_channels THEN data
    ELSE IF from_channels = 2 /\ to_channels = 1
    THEN [i \in 1..(Len(data) \div 2) |->
             TruncDiv(data[2 * i - 1] + data[2 * i], 2)]
    ELSE IF from_channels = 1 /\ to_channels = 2
    THEN [i \in 1..(2 * Len(data)) |-> data[(i + 1) \div 2]]
    ELSE data

(* audio_np.reshape(-1, 2) raises for an odd number of samples *)
ConvertRaises(data, from_channels, to_channels) ==
    from_channels = 2 /\ to_channels = 1 /\ Len(data) % 2 = 1

(* _update_peaking_filter: the section [b0, b1, b2, a0, a1, a2] of a     *)
(* band; the bypass section at 0 dB, else integers in place of the       *)
(* Cookbook coefficients: a section the stability test of the code       *)
(* accepts, with gain 1 at frequency 0 and a response that grows with    *)
(* the gain of the band. A gain whose coefficients are not finite or     *)
(* fail the stability test gets the bypass section as well.              *)
Sos(gain_db) ==
    IF gain_db = 0 \/ gain_db >= HugeGain THEN <<1, 0, 0, 1, 0, 0>>
    ELSE <<1 + gain_db, -2 * gain_db, gain_db, 1, 0, 0>>

(* signal.sosfilt(sos, x, zi=zi) for one section: the output and the     *)
(* final state (transposed direct form II)                                *)
RECURSIVE sosfilt(_, _, _)
sosfilt(sos, x, zi) ==
    IF x = <<>> THEN [filtered |-> <<>>, zi |-> zi]
    ELSE LET y == sos[1] * Head(x) + zi[1]
             rest == sosfilt(sos, Tail(x),
                             <<sos[2] * Head(x) - sos[5] * y + zi[2],
                               sos[3] * Head(x) - sos[6] * y>>)
         IN  [filtered |-> <<y>> \o rest.filtered, zi |-> rest.zi]

(* np.isnan / np.isinf of a filtered signal *)
NonFinite(x) == \E i \in DOMAIN x : x[i] > FloatMax \/ x[i] < -FloatMax

(* audio_np.reshape(-1, 2): the two channels of interleaved frames, and  *)
(* np.column_stack([left, right]).flatten()                               *)
LeftOf(x) == [i \in 1..(Len(x) \div 2) |-> x[2 * i - 1]]
RightOf(x) == [i \in 1..(Len(x) \div 2) |-> x[2 * i]]
Interleave(left, right) ==
    [i \in 1..(2 * Len(left)) |->
        IF i % 2 = 1 THEN left[(i + 1) \div 2] ELSE right[i \div 2]]

(* for band in self.eq_bands: a band without a section is skipped, and   *)
(* so is a band at 0 dB; _update_peaking_filter then drops the section  *)
(* of a band at or above the limit. The other bands filter the signal   *)
(* in series, each keeping its state, in stereo each channel with its   *)
(* own state. A band whose output is not finite puts the original       *)
(* signal back, zeroes its state and ends the loop.                      *)
RECURSIVE FilterBands(_, _, _, _)
FilterBands(bands, audio_np, acc, is_stereo) ==
    IF bands = {} THEN acc
    ELSE LET band == CHOOSE b \in bands : \A c \in bands : b <= c
             rest == bands \ {band}
             left == sosfilt(Sos(eq_gains[band]),
                             IF is_stereo THEN LeftOf(acc.filtered) ELSE acc.filtered,
                             acc.states[band])
             right == sosfilt(Sos(eq_gains[band]), RightOf(acc.filtered),
                              acc.right[band])
         IN  IF acc.sos[band] = "None" \/ eq_gains[band] = 0
             THEN FilterBands(rest, audio_np, acc, is_stereo)
             ELSE IF AboveNyquistLimit(band, RATE)
             THEN FilterBands(rest, audio_np,
                              [acc EXCEPT !.sos[band] = "None"], is_stereo)
             ELSE IF NonFinite(left.filtered)
                     \/ (is_stereo /\ NonFinite(right.filtered))
             THEN [acc EXCEPT !.filtered = audio_np,
                              !.states[band] = <<0, 0>>,
                              !.right[band] = IF is_stereo THEN <<0, 0>> ELSE @,
                              !.sos[band] = "sos"]
             ELSE FilterBands(rest, audio_np,
                      [acc EXCEPT !.filtered = IF is_stereo
                                               THEN Interleave(left.filtered,
                                                               right.filtered)
                                               ELSE left.filtered,
                                  !.states[band] = left.zi,
                                  !.right[band] = IF is_stereo THEN right.zi ELSE @,
                                  !.sos[band] = "sos"],
                      is_stereo)

(* the loop over the bands on a chunk, from the filter states as they are *)
BandLoop(bands, audio_data) ==
    FilterBands(bands, audio_data,
                [filtered |-> audio_data, states |-> eq_filter_states,
                 right |-> eq_filter_states_right, sos |-> eq_filter_sos],
                input_channels = 2 /\ Len(audio_data) > ChunkFrames)

(* apply_equalizer after its early exits: the bands, the normalisation   *)
(* of a signal above 32767, the clipping to 16 bits                       *)
Filtered(audio_data) ==
    LET r == BandLoop(EqBands, audio_data)
        Abs(v) == IF v < 0 THEN -v ELSE v
        max_val == CHOOSE m \in {Abs(r.filtered[i]) : i \in DOMAIN r.filtered} :
                       \A i \in DOMAIN r.filtered : Abs(r.filtered[i]) <= m
        \* v * (32000.0 / max_val), the product taken in two steps
        Part(v) == ((v * 250) \div max_val) * 128
                       + (((v * 250) % max_val) * 128) \div max_val
        Scaled(v) == IF max_val <= 32767 THEN v
                     ELSE IF v >= 0 THEN Part(v) ELSE -Part(-v)
    IN  [filtered |-> [i \in DOMAIN r.filtered |->
                          Max(-32768, Min(32767, Scaled(r.filtered[i])))],
         states |-> r.states, right |-> r.right, sos |-> r.sos]

(* the equalizer without its early exits *)
EqualizeAlways(audio_data) == Filtered(audio_data)

(* apply_equalizer: the input itself when the equalizer is off or every *)
(* gain is 0.0, else the filtered signal; with the filter states after   *)
apply_equalizer(audio_data) ==
    IF ~equalizer_enabled \/ \A band \in EqBands : eq_gains[band] = 0
    THEN [filtered |-> audio_data, states |-> eq_filter_states,
          right |-> eq_filter_states_right, sos |-> eq_filter_sos]
    ELSE Filtered(audio_data)


(* an equalizer slider (ttk.Scale on self.eq_gains[band]) moved to 0 or *)
(* 1 dB; the sliders are disabled while the equalizer is switched off    *)
eq_scale(band, gain_db) ==
    /\ equalizer_enabled
    /\ eq_gains[band] # gain_db
    /\ eq_gains' = [eq_gains EXCEPT ![band] = gain_db]
    /\ UNCHANGED <<equalizer_enabled, eq_filter_states, eq_filter_states_right,
                   eq_filter_sos, input_channels,
                   output_channels, start_threshold, stop_threshold, stop_scale_to,
                   rise_time, fall_time, record_time, stop_time, dead_time,
                   playback_delay, is_duplex_mode, RATE, monitoring_enabled, guiVars, displayVars,
                   flagVars, audio_buffer, dead_time_end, envVars, dbufVars,
                   workerVars, streamVars, streams_lock, signal, pc, mpc, ppc, loc>>

(* on_equalizer_toggle: self.equalizer_enabled = the checkbox *)
on_equalizer_toggle ==
    /\ equalizer_enabled' = ~equalizer_enabled
    /\ UNCHANGED <<eq_gains, eq_filter_states, eq_filter_states_right,
                   eq_filter_sos, input_channels,
                   output_channels, start_threshold, stop_threshold, stop_scale_to,
                   rise_time, fall_time, record_time, stop_time, dead_time,
                   playback_delay, is_duplex_mode, RATE, monitoring_enabled, guiVars, displayVars,
                   flagVars, audio_buffer, dead_time_end, envVars, dbufVars,
                   workerVars, streamVars, streams_lock, signal, pc, mpc, ppc, loc>>

(* restart_audio_streams: the channels of the selected devices *)
device_channels(in_channels, out_channels) ==
    /\ <<in_channels, out_channels>> # <<input_channels, output_channels>>
    /\ input_channels' = in_channels
    /\ output_channels' = out_channels
    /\ UNCHANGED <<equalizer_enabled, eq_gains, eq_filter_states,
                   eq_filter_states_right, eq_filter_sos,
                   start_threshold, stop_threshold, stop_scale_to,
                   rise_time, fall_time, record_time, stop_time, dead_time,
                   playback_delay, is_duplex_mode, RATE, monitoring_enabled, guiVars, displayVars,
                   flagVars, audio_buffer, dead_time_end, envVars, dbufVars,
                   workerVars, streamVars, streams_lock, signal, pc, mpc, ppc, loc>>

(* The data of one iteration of start_recording: the chunk read is       *)
(* captured and, with monitoring on, converted to the output channels    *)
(* and appended to the delay buffer; a conversion that raises ends the   *)
(* iteration after the capture.                                           *)
capture_chunk ==
    /\ signal # <<>>
    /\ signal' = Tail(signal)
    /\ audio_buffer' = Append(audio_buffer, Head(signal))
    /\ delayed_playback_buffer' =
           IF monitoring_enabled
              /\ ~ConvertRaises(Head(signal), input_channels, output_channels)
           THEN Append(delayed_playback_buffer,
                       convert_channels(Head(signal), input_channels, output_channels))
           ELSE delayed_playback_buffer
    /\ UNCHANGED <<cfgVars, monitoring_enabled, guiVars, displayVars, flagVars, dead_time_end,
                   envVars, delayed_playback_buffer_size, workerVars, streamVars,
                   streams_lock, pc, mpc, ppc, loc>>

(* The data of one iteration of play_audio: popleft, apply_equalizer,    *)
(* convert_channels, write; a conversion that raises ends the playback,  *)
(* which clears the capture buffer.                                       *)
play_chunk ==
    /\ audio_buffer # <<>>
    /\ eq_filter_states' = apply_equalizer(Head(audio_buffer)).states
    /\ eq_filter_states_right' = apply_equalizer(Head(audio_buffer)).right
    /\ eq_filter_sos' = apply_equalizer(Head(audio_buffer)).sos
    /\ audio_buffer' =
           IF ConvertRaises(apply_equalizer(Head(audio_buffer)).filtered,
                            input_channels, output_channels)
           THEN <<>> ELSE Tail(audio_buffer)
    /\ UNCHANGED <<equalizer_enabled, eq_gains, input_channels,
                   output_channels, start_threshold, stop_threshold, stop_scale_to,
                   rise_time, fall_time, record_time, stop_time, dead_time,
                   playback_delay, is_duplex_mode, RATE, monitoring_enabled, guiVars, displayVars,
                   flagVars, dead_time_end, envVars, dbufVars,
                   workerVars, streamVars, streams_lock, signal, pc, mpc, ppc, loc>>

(* The equalizer and the channel conversion alone: two chunks arrive at  *)
(* the input, the sliders, the switches and the devices are set at will.  *)
InitAudio ==
    /\ SlidersAt(HighRate, RecordTimeMs, StopTimeMs, DeadTimeMs)
    /\ EngineAtRest
    /\ \E first, second \in Chunks : signal = <<first, second>>
    /\ starts = 0
    /\ pc = [l \in Loops |-> "idle"]

NextAudio ==
    \/ \E band \in EqBands, gain_db \in {0, 1} : eq_scale(band, gain_db)
    \/ on_equalizer_toggle
    \/ on_monitoring_toggle
    \/ \E in_channels, out_channels \in {1, 2} :
           device_channels(in_channels, out_channels)
    \/ capture_chunk
    \/ play_chunk

SpecAudio == InitAudio /\ [][NextAudio]_vars

(* C19: with every band gain at 0 dB apply_equalizer returns its input   *)
(* unchanged, sample for sample, for every input chunk, and leaves every *)
(* filter state as it was.                                                *)
C19_ZeroGainsIdentity ==
    \A audio_data \in Chunks :
        (\A band \in EqBands : eq_gains[band] = 0)
        => /\ apply_equalizer(audio_data).filtered = audio_data
           /\ apply_equalizer(audio_data).states = eq_filter_states

(* the equalizer is on with every gain back at 0 dB after it has         *)
(* filtered: a filter state is not zero, and the chunk to play holds the *)
(* lowest sample                                                          *)
C19_Witness ==
    /\ equalizer_enabled
    /\ \A band \in EqBands : eq_gains[band] = 0
    /\ \E band \in EqBands : eq_filter_states[band] # <<0, 0>>
    /\ audio_buffer # <<>>
    /\ \E i \in DOMAIN Head(audio_buffer) : Head(audio_buffer)[i] = -32768

(* C20: converting a mono chunk to stereo and back to mono with          *)
(* convert_channels gives the mono samples it started from, for every    *)
(* mono chunk of 16-bit samples: the captured ones and every other.     *)
C20_MonoStereoMono ==
    \A data \in Chunks \cup {audio_buffer[i] : i \in DOMAIN audio_buffer} :
        convert_channels(convert_channels(data, 1, 2), 2, 1) = data

(* a mono chunk with the two extreme samples was captured and converted  *)
(* to stereo for the delay buffer, and converts back to itself            *)
C20_Witness ==
    /\ input_channels = 1 /\ output_channels = 2
    /\ audio_buffer = <<<<-32768, 32767>>>>
    /\ delayed_playback_buffer = <<<<-32768, -32768, 32767, 32767>>>>
    /\ convert_channels(Head(delayed_playback_buffer), 2, 1) = Head(audio_buffer)


(* ---------------------- duplex, the delay left alone ------------------- *)

(* The duplex engine under any sequence of start and stop requests, no   *)
(* device call failing, the delay slider not touched.                     *)
SpecDuplexFixed ==
    InitDuplex /\ [][\/ start_repeater /\ is_duplex_mode
                     \/ stop_repeater
                     \/ toggle_mode
                     \/ \E l \in Loops : DuplexStep(l, {TRUE}) /\ InputLeft(l)]_vars

(* C21: with a constant delay parameter, at every push of the duplex     *)
(* producer (the append of record_thread) the occupancy of the delay     *)
(* buffer is at most the target depth.                                    *)
C21_PushAtMostTarget ==
    [][\A l \in Loops :
          (ppc[l] = "p_read" /\ ppc'[l] = "p_loop")
              => Len(delayed_playback_buffer) <= DelayChunks(playback_delay)]_vars


(* C22 as the specification states it: when the duplex consumer finds    *)
(* the occupancy at or above the target depth, the occupancy right after *)
(* its pops equals the target depth.                                      *)
C22_PopsToTarget ==
    [][\A l \in Loops :
          (mpc[l] = "c_pop" /\ mpc'[l] = "c_write"
             /\ Len(delayed_playback_buffer) >= delayed_playback_buffer_size)
          => Len(delayed_playback_buffer') = delayed_playback_buffer_size]_vars

(* C22, amended: the duplex consumer goes on to pop only when it finds   *)
(* the occupancy at or above the target depth, and else pops nothing and *)
(* writes nothing; its pops take at least one chunk from the head of the *)
(* buffer and leave target depth - 1 chunks when the occupancy is still  *)
(* at or above the target depth; the chunks popped, in their order, are  *)
(* the unit of the one write that follows; and only a pop or the end of  *)
(* the thread lets the consumer shorten the buffer.                       *)
C22_PopsBelowTarget ==
    [][\A l \in Loops :
          /\ (mpc[l] = "c_loop" /\ mpc'[l] = "c_pop")
                => Len(delayed_playback_buffer) >= delayed_playback_buffer_size
          /\ (mpc[l] = "c_pop" /\ mpc'[l] = "c_write")
                => /\ loc'[l].unit # <<>>
                   /\ loc'[l].unit \o delayed_playback_buffer' = delayed_playback_buffer
                   /\ Len(delayed_playback_buffer) >= delayed_playback_buffer_size
                        => Len(delayed_playback_buffer')
                               = delayed_playback_buffer_size - 1
          /\ (mpc[l] = "c_write" /\ mpc'[l] # "c_write")
                => /\ loc[l].unit # <<>> /\ loc'[l].unit = <<>>
                   /\ delayed_playback_buffer' = delayed_playback_buffer
          /\ (mpc'[l] # mpc[l] /\ mpc'[l] \notin {"c_write", "c_done"}
                /\ mpc[l] \in {"c_wait", "c_loop", "c_pop", "c_except"})
                => delayed_playback_buffer' = delayed_playback_buffer]_vars

(* the consumer has popped two chunks at once from a buffer above its    *)
(* target depth and holds them for its write                              *)
C22_Witness ==
    \E l \in Loops :
        /\ mpc[l] = "c_write"
        /\ Len(loc[l].unit) = 2
        /\ Len(delayed_playback_buffer) = delayed_playback_buffer_size - 1


(* --------------------------- the target depth -------------------------- *)

(* The delay slider alone, at either rate: moved to any multiple of      *)
(* DelayStepMs on its scale.                                              *)
InitDelay ==
    /\ \E rate \in {LowRate, HighRate} :
           SlidersAt(rate, RecordTimeMs, StopTimeMs, DeadTimeMs)
    /\ EngineAtRest
    /\ signal = <<>>
    /\ starts = 0
    /\ pc = [l \in Loops |-> "idle"]

SpecDelay ==
    InitDelay /\ [][\E i \in 0..(DelayScaleTo \div DelayStepMs) :
                       on_playback_delay_change(DelayStepMs * i)]_vars

(* C23 as the specification states it: the target depth is               *)
(* max(2, round(delay_ms / 1000 * rate / chunkFrames)).                  *)
C23_DepthIsRound ==
    delayed_playback_buffer_size =
        Max(2, (2 * playback_delay * RATE + CHUNK * 1000) \div (2 * CHUNK * 1000))

(* C23, amended: the target depth is max(2, n) for the whole number n of *)
(* chunks that fit into delay_ms at the rate, rounded down; it is so     *)
(* after every change of the delay parameter.                             *)
C23_DepthIsFloor ==
    /\ delayed_playback_buffer_size >= 2
    /\ delayed_playback_buffer_size * CHUNK * 1000 <= playback_delay * RATE
          \/ /\ delayed_playback_buffer_size = 2
             /\ playback_delay * RATE < 2 * CHUNK * 1000
    /\ playback_delay * RATE < (delayed_playback_buffer_size + 1) * CHUNK * 1000

(* the slider was moved to a delay that holds more than two chunks and   *)
(* more than half a chunk besides                                         *)
C23_Witness ==
    /\ delayed_playback_buffer_size > 2
    /\ 2 * (playback_delay * RATE - delayed_playback_buffer_size * CHUNK * 1000)
           > CHUNK * 1000


(* --------------------------- duplex start-up --------------------------- *)

(* C24: audio_loop_duplex leaves the delay buffer holding exactly the     *)
(* target depth of silence chunks before its record thread runs, and the  *)
(* first chunks handed to the output after the start-up, as many as that  *)
(* depth, are silence: while the run lasts an input chunk is written only *)
(* after them.                                                            *)
C24_SilenceFirst ==
    [][\A l \in Loops :
          /\ (pc[l] = "open" /\ pc'[l] = "d_sup")
             => /\ delayed_playback_buffer' =
                      [i \in 1..delayed_playback_buffer_size' |-> Silence]
                /\ delayed_playback_buffer_size' = Max(2, ChunksFor(playback_delay))
                /\ lead_in' = delayed_playback_buffer_size'
          /\ (mpc[l] = "c_write" /\ mpc'[l] # "c_write"
                 /\ \E k \in Loops : k = starts /\ pc[k] = "d_sup")
             => \A i \in 1..Len(loc[l].unit) :
                    i <= lead_in => loc[l].unit[i] = Silence]_vars

(* ------------------------- the streams lock --------------------------- *)

(* C25: the accesses to the delay buffer and to the streams exclude one   *)
(* another through the streams lock: the monitor thread pops and writes,  *)
(* the duplex record thread reads and appends, and play_audio writes,     *)
(* only while no other thread holds the lock.                             *)
C25_AccessUnderLock ==
    [][\A l \in Loops :
          /\ (mpc[l] \in {"m_loop", "m_write"} /\ mpc'[l] # mpc[l]
                 /\ mpc'[l] \in {"m_loop", "m_write", "m_except"})
             => streams_lock = Free
          /\ (ppc[l] = "p_read" /\ ppc'[l] # "p_read") => streams_lock = Free
          /\ (pc[l] = "play" /\ audio_buffer' # audio_buffer)
             => streams_lock \in {Free, MainId(l)}]_vars


(* C26: the streams are closed or reopened only while no thread is inside *)
(* a chunk read or write on them and neither Recording nor Playing is in  *)
(* progress.                                                              *)
C26_QuietWhenReopened ==
    [][(\E l \in Loops : pc[l] \in {"open", "close"} /\ pc'[l] # pc[l])
       => \A l \in Loops : /\ ~InRecordingLoop(l)
                           /\ pc[l] # "play"
                           /\ ppc[l] # "p_read"
                           /\ mpc[l] \notin {"m_write", "c_write"}]_vars


(* --------------------------- a stalled device -------------------------- *)

(* One run of the engine in simplex mode on an input device that may     *)
(* stall: the main loop has passed its test of self.running, taken the   *)
(* streams lock and entered self.stream_in.read, and the call does not   *)
(* return.                                                                *)
NextStall ==
    \/ start_repeater
    \/ stop_repeater
    \/ stop_repeater_queued
    \/ Tick
    \/ \E l \in Loops : SimplexStep(l, BOOLEAN)
    \/ \E l \in Loops :
          /\ pc[l] = "read"
          /\ running
          /\ streams_lock = Free
          /\ stream_in
          /\ streams_lock' = MainId(l)
          /\ Goto(l, "reading")
          /\ UNCHANGED <<cfgVars, monitoring_enabled, guiVars, displayVars, flagVars,
                         audio_buffer, dead_time_end, envVars, dbufVars,
                         workerVars, streamVars, signal, mpc, ppc, loc>>

SpecStall == InitRun /\ [][NextStall]_vars

(* C27: a stop request unblocks a device read in flight: once the engine *)
(* is stopped, a thread inside a read that the device does not finish    *)
(* can take a step that ends the read.                                    *)
C27_StopUnblocksRead ==
    \A l \in Loops :
        (pc[l] = "reading" /\ ~running)
        => ENABLED (NextStall /\ pc'[l] # "reading")


(* ------------------------- one loop at a time -------------------------- *)

(* C28: at most one audio_loop thread is executing at any time: no two   *)
(* threads are past the opening of the streams and not yet finished.     *)
C28_OneLoopAtATime ==
    \A k, l \in Loops :
        (pc[k] \notin {"idle", "open", "done"} /\ pc[l] \notin {"idle", "open", "done"})
        => k = l


(* ------------------------------ after a stop --------------------------- *)

(* C29: once the engine is stopped and every audio_loop thread, monitor  *)
(* or playback thread and record thread has ended, the capture buffer    *)
(* and the delay buffer are empty and the filter state of every          *)
(* equalizer band is zero.                                               *)
C29_CleanAfterStop ==
    (/\ ~running
     /\ \E l \in Loops : pc[l] = "done"
     /\ \A l \in Loops : /\ pc[l] \in {"idle", "done"}
                         /\ mpc[l] \in {"idle", "m_done", "c_done"}
                         /\ ppc[l] \in {"idle", "p_done"})
    => /\ audio_buffer = <<>>
       /\ delayed_playback_buffer = <<>>
       /\ \A band \in EqBands : eq_filter_states[band] = <<0, 0>>


(* ------------------------------ a new run ------------------------------ *)

(* C30: a run of the engine in simplex mode that starts when every       *)
(* earlier audio_loop thread has ended enters its main loop with no dead *)
(* time pending and a damped level of 0.                                  *)
C30_FreshStart ==
    [][\A l \in Loops :
          (/\ pc[l] = "open"
           /\ pc'[l] = "read"
           /\ \A k \in Loops : k # l => pc[k] \in {"idle", "done"})
          => /\ dead_time_end' <= now
             /\ current_damped_level' = 0]_vars


(* --------------------- sliders moved while recording ------------------- *)

(* C31: the end-of-recording decision of every chunk is made with the    *)
(* stop threshold and the stop time as they are when the chunk is read:  *)
(* a chunk whose damped level is not below the current stop threshold    *)
(* resets the low-level counter and does not end the recording, and a    *)
(* chunk below it that completes the current stop time ends it.          *)
C31_CurrentStopSettings ==
    [][\A l \in Loops :
          ChunkProcessed(l)
          => /\ current_damped_level' >= stop_threshold
                => /\ loc'[l].low_level_counter = 0
                   /\ pc'[l] # "rec_post"
             /\ (/\ current_damped_level' < stop_threshold
                 /\ loc[l].low_level_counter + 1 >= ChunksFor(stop_time))
                => pc'[l] = "rec_post"]_vars


(* C32: a chunk captured by a Recording episode leaves the episode's     *)
(* count of captured chunks within the limit computed from record_time   *)
(* when the episode began and within the limit computed from record_time *)
(* as it is when the chunk is read.                                       *)
C32_WithinBothLimits ==
    [][\A l \in Loops :
          (pc[l] = "rec_read" /\ loc'[l].chunk_count = loc[l].chunk_count + 1)
          => /\ loc'[l].chunk_count <= loc[l].range_n
             /\ loc'[l].chunk_count <= ChunksFor(record_time)]_vars

(* record_time was raised during a recording that has reached the limit  *)
(* of its beginning, or lowered to the number of chunks captured          *)
C32_Witness ==
    \E l \in Loops :
        /\ pc[l] = "rec_read"
        /\ running
        /\ Len(audio_buffer) = loc[l].chunk_count
        /\ \/ loc[l].chunk_count = loc[l].range_n
              /\ ChunksFor(record_time) > loc[l].range_n
           \/ loc[l].chunk_count = ChunksFor(record_time)
              /\ ChunksFor(record_time) < loc[l].range_n


(* ------------------- the playback and the envelope --------------------- *)

(* One run in simplex mode on a prepared input: a loud chunk that        *)
(* triggers, loud chunks for a whole recording, then silence only; the   *)
(* release time and the dead time as the sliders were left, healthy      *)
(* devices, not stopped, the device pacing the thread.                    *)
InitEcho ==
    /\ LoadedThresholds(StartThresholdDefault, StopThresholdDefault)
    /\ rise_time = RiseTimeDefault
    /\ fall_time \in {0, FallTimeDefault, LongFallMs}
    /\ record_time = RecordTimeMs
    /\ stop_time = StopTimeMs
    /\ dead_time \in {0, DeadTimeMs}
    /\ monitoring_enabled = FALSE
    /\ playback_delay = 0
    /\ is_duplex_mode = FALSE
    /\ RATE = LowRate
    /\ EngineAtRest
    /\ signal = [i \in 1..(1 + ChunksAt(LowRate, RecordTimeMs) + EchoSilence) |->
                   IF i <= 1 + ChunksAt(LowRate, RecordTimeMs) THEN LoudLevel ELSE 0]
    /\ starts = MaxStarts - 1
    /\ pc = [l \in Loops |-> IF l < MaxStarts THEN "done" ELSE "idle"]

SpecEcho == InitEcho /\ [][NextScenario]_vars

(* C33: silent input does not trigger a Recording.  On the echo input    *)
(* every loud chunk is read before the playback ends; a trigger test     *)
(* made after a silent chunk was read, with nothing but silence read     *)
(* since the playback, does not start a Recording, whatever the dead     *)
(* time, the release time and the level played back.                      *)
C33_SilentInputNoTrigger ==
    [][\A l \in Loops :
          (/\ pc[l] = "trigger"
           /\ Len(signal) < EchoSilence
           /\ \A i \in DOMAIN signal : signal[i] = 0)
          => pc'[l] # "rec_read"]_vars


(* ---------------------- the clock stepping backwards ------------------- *)

(* time.time() is the wall clock: it is set back by BackStepMs, so every *)
(* time stamp the engine took lies that much later than before, relative *)
(* to the clock.  The model follows one such step.                       *)
clock_set_back ==
    /\ last_update_time <= now
    /\ dead_time_end <= now
    /\ last_update_time' = last_update_time + 1000 * BackStepMs
    /\ dead_time_end' = dead_time_end + 1000 * BackStepMs
    /\ UNCHANGED <<cfgVars, monitoring_enabled, guiVars, displayVars, flagVars, audio_buffer,
                   current_damped_level, dbufVars, workerVars, streamVars,
                   streams_lock, signal, pc, mpc, ppc, loc>>

(* the envelope alone, as the last run left it, the wall clock set back *)
(* before an update                                                      *)
SpecClock ==
    InitLevel /\ [][\/ clock_set_back
                    \/ \E level \in RawLevels : update_level(level)]_vars

(* C34: for an elapsed time <= 0 and a positive time constant, the new   *)
(* damped level of one envelope update lies between the previous damped  *)
(* level and the raw level, and is not negative.                          *)
C34_BackwardClockBounded ==
    \A level \in RawLevels :
        (/\ now - last_update_time <= 0
         /\ (IF level > current_damped_level THEN rise_time ELSE fall_time) > 0)
        => /\ Min(current_damped_level, level) <= NextDamped(level)
           /\ NextDamped(level) <= Max(current_damped_level, level)
           /\ NextDamped(level) >= 0


(* ------------------ a recording that is not played back ---------------- *)

(* C35: when start_recording has left its loop with no chunk captured,   *)
(* or because the engine was stopped, its next step starts no Playing    *)
(* episode (so that nothing is written to the output) and leaves         *)
(* dead_time_end as it is.                                                *)
C35_NothingToPlay ==
    [][\A l \in Loops :
          (/\ pc[l] = "rec_post"
           /\ pc'[l] # "rec_post"
           /\ loc[l].chunk_count = 0 \/ loc[l].stopped)
          => /\ pc'[l] = "read"
             /\ is_playing' = is_playing
             /\ dead_time_end' = dead_time_end]_vars


(* ----------------------- the status after a stop ----------------------- *)

(* The Tk main loop runs the pending update_status and update_progress   *)
(* calls: status_label.config(text=...), progress['value'] = value.      *)
after_callbacks ==
    /\ after # NoAfter
    /\ status_label' = IF after.status = "" THEN status_label ELSE after.status
    /\ progress' = IF after.progress = -1 THEN progress ELSE after.progress
    /\ after' = NoAfter
    /\ UNCHANGED <<cfgVars, monitoring_enabled, guiVars, flagVars, audio_buffer,
                   dead_time_end, envVars, dbufVars, workerVars, streamVars,
                   streams_lock, signal, pc, mpc, ppc, loc>>

(* One run of the engine in simplex mode with monitoring off, with the   *)
(* Tk main loop running the calls the processing thread posts.           *)
SpecStatus ==
    InitRun /\ [][\/ start_repeater
                  \/ stop_repeater
                  \/ stop_repeater_queued
                  \/ Tick
                  \/ after_callbacks
                  \/ \E l \in Loops : SimplexStep(l, BOOLEAN)]_vars

(* C36: once stop_repeater has run, the processing thread has ended and  *)
(* every call it posted has run, the status label shows the stopped      *)
(* status and the progress bar is at 0.                                   *)
C36_StoppedStatus ==
    (/\ starts = MaxStarts
     /\ ~running
     /\ start_enabled
     /\ ~pending_stop
     /\ pc[MaxStarts] = "done"
     /\ after = NoAfter)
    => /\ status_label = "Gestoppt"
       /\ progress = 0


(* ------------------------- the channel layouts ------------------------- *)

(* b''.join of the chunks popped for one write *)
RECURSIVE Flat(_)
Flat(unit) == IF unit = <<>> THEN <<>> ELSE Head(unit) \o Flat(Tail(unit))

(* what a playback hands to stream_out.write for the data it popped:     *)
(* apply_equalizer, apply_gain (0 dB), convert_channels from the input   *)
(* to the output channels                                                 *)
output_unit(data) ==
    convert_channels(apply_equalizer(data).filtered, input_channels, output_channels)

(* audio_loop_simplex and audio_loop_duplex before their threads start:  *)
(* the delay buffer filled with chunks of                                 *)
(* np.zeros(self.CHUNK * self.output_channels)                            *)
prefill_silence ==
    /\ delayed_playback_buffer = <<>>
    /\ delayed_playback_buffer_size' = DelayChunks(playback_delay)
    /\ delayed_playback_buffer' =
           [k \in 1..DelayChunks(playback_delay) |->
               [i \in 1..(ChunkFrames * output_channels) |-> 0]]
    /\ UNCHANGED <<cfgVars, monitoring_enabled, guiVars, displayVars, flagVars,
                   audio_buffer, dead_time_end, envVars, workerVars, streamVars,
                   streams_lock, signal, pc, mpc, ppc, loc>>

(* The data of one iteration of the duplex record_thread: the wait for   *)
(* room, the chunk read and appended as it is.                            *)
record_chunk ==
    /\ signal # <<>>
    /\ Len(delayed_playback_buffer) <= DelayChunks(playback_delay)
    /\ signal' = Tail(signal)
    /\ delayed_playback_buffer_size' = DelayChunks(playback_delay)
    /\ delayed_playback_buffer' = Append(delayed_playback_buffer, Head(signal))
    /\ UNCHANGED <<cfgVars, monitoring_enabled, guiVars, displayVars, flagVars,
                   audio_buffer, dead_time_end, envVars, workerVars, streamVars,
                   streams_lock, pc, mpc, ppc, loc>>

(* The data of one iteration of simplex_playback_thread (monitoring on,  *)
(* no playback of a recording) or of the duplex playback_thread: the     *)
(* pops down to the target depth, apply_equalizer, convert_channels and  *)
(* the write; a conversion that raises loses the chunks popped.          *)
playback_chunk ==
    /\ is_duplex_mode \/ (monitoring_enabled /\ ~is_playing)
    /\ Len(delayed_playback_buffer) >= delayed_playback_buffer_size
    /\ delayed_playback_buffer' =
           PopToTarget(delayed_playback_buffer, delayed_playback_buffer_size)
    /\ eq_filter_states' =
           apply_equalizer(Flat(PoppedUnit(delayed_playback_buffer,
                                           delayed_playback_buffer_size))).states
    /\ eq_filter_states_right' =
           apply_equalizer(Flat(PoppedUnit(delayed_playback_buffer,
                                           delayed_playback_buffer_size))).right
    /\ eq_filter_sos' =
           apply_equalizer(Flat(PoppedUnit(delayed_playback_buffer,
                                           delayed_playback_buffer_size))).sos
    /\ UNCHANGED <<equalizer_enabled, eq_gains, input_channels,
                   output_channels, start_threshold, stop_threshold, stop_scale_to,
                   rise_time, fall_time, record_time, stop_time, dead_time,
                   playback_delay, is_duplex_mode, RATE, monitoring_enabled, guiVars,
                   displayVars, flagVars, audio_buffer, dead_time_end, envVars,
                   delayed_playback_buffer_size, workerVars, streamVars,
                   streams_lock, signal, pc, mpc, ppc, loc>>

(* the engine after __init__ apart from the equalizer and the channels *)
RestButAudio ==
    /\ start_enabled = TRUE
    /\ pending_stop = FALSE
    /\ status_label = "Gestoppt"
    /\ progress = 0
    /\ after = NoAfter
    /\ running = FALSE
    /\ is_recording = FALSE
    /\ is_playing = FALSE
    /\ audio_buffer = <<>>
    /\ dead_time_end = 0
    /\ current_damped_level = 0
    /\ last_update_time = 0
    /\ delayed_playback_buffer = <<>>
    /\ delayed_playback_buffer_size = MinDelayChunks
    /\ simplex_playback_running = FALSE
    /\ duplex_recording = FALSE
    /\ stream_in = FALSE
    /\ stream_out = FALSE
    /\ lead_in = 0
    /\ streams_lock = Free
    /\ mpc = [l \in Loops |-> "idle"]
    /\ ppc = [l \in Loops |-> "idle"]
    /\ loc = [l \in Loops |-> NoLoc]
    /\ starts = 0
    /\ pc = [l \in Loops |-> "idle"]

(* The engine at rest with the devices selected: one or two channels in  *)
(* and out, and two chunks of ChunkFrames frames in the layout of the    *)
(* input device about to arrive.                                          *)
InitLayout ==
    /\ SlidersAt(LowRate, RecordTimeMs, StopTimeMs, DeadTimeMs)
    /\ RestButAudio
    /\ equalizer_enabled = TRUE
    /\ eq_gains = [band \in EqBands |-> 0]
    /\ eq_filter_states = [band \in EqBands |-> <<0, 0>>]
    /\ eq_filter_states_right = [band \in EqBands |-> <<0, 0>>]
    /\ eq_filter_sos = InitialSos(LowRate)
    /\ input_channels \in {1, 2}
    /\ output_channels \in {1, 2}
    /\ \E first, second \in {-32768, 12000, 32767} :
          signal = <<[i \in 1..(ChunkFrames * input_channels) |-> first],
                     [i \in 1..(ChunkFrames * input_channels) |-> second]>>

(* The mode and the monitoring checkbox are set, the delay buffer is     *)
(* filled, and chunks are read, captured, played back and monitored.     *)
NextLayout ==
    \/ toggle_mode /\ delayed_playback_buffer = <<>>
    \/ on_monitoring_toggle
    \/ prefill_silence
    \/ record_chunk /\ is_duplex_mode /\ delayed_playback_buffer # <<>>
    \/ capture_chunk /\ ~is_duplex_mode /\ delayed_playback_buffer # <<>>
    \/ play_chunk /\ ~is_duplex_mode
    \/ playback_chunk

SpecLayout == InitLayout /\ [][NextLayout]_vars

(* C37: every unit handed to the output stream has the layout of the     *)
(* output device: a unit made of k chunks holds k * ChunkFrames frames   *)
(* of output_channels samples, in simplex playback, in simplex           *)
(* monitoring and in duplex streaming, the silence of the start-up       *)
(* included.                                                              *)
C37_OutputLayout ==
    [][/\ (/\ Len(delayed_playback_buffer') < Len(delayed_playback_buffer)
           /\ ~ConvertRaises(
                  apply_equalizer(Flat(PoppedUnit(delayed_playback_buffer,
                      delayed_playback_buffer_size))).filtered,
                  input_channels, output_channels))
          => Len(output_unit(Flat(PoppedUnit(delayed_playback_buffer,
                                             delayed_playback_buffer_size))))
                = Len(PoppedUnit(delayed_playback_buffer,
                                 delayed_playback_buffer_size))
                      * ChunkFrames * output_channels
       /\ (/\ Len(audio_buffer') < Len(audio_buffer)
           /\ ~ConvertRaises(apply_equalizer(Head(audio_buffer)).filtered,
                             input_channels, output_channels))
          => Len(output_unit(Head(audio_buffer)))
                = ChunkFrames * output_channels]_vars


(* ------------------ the equalizer and the sample rate ------------------ *)

(* on_sample_rate_changed: the rate of the combobox is taken over while  *)
(* the engine is stopped; nothing else is touched                         *)
on_sample_rate_changed(rate) ==
    /\ ~running
    /\ rate # RATE
    /\ RATE' = rate
    /\ UNCHANGED <<audioVars, start_threshold, stop_threshold, stop_scale_to,
                   rise_time, fall_time, record_time, stop_time, dead_time,
                   playback_delay, is_duplex_mode, monitoring_enabled, guiVars,
                   displayVars, flagVars, audio_buffer, dead_time_end, envVars,
                   dbufVars, workerVars, streamVars, streams_lock, signal, pc,
                   mpc, ppc, loc>>

(* The engine after __init__ with a saved configuration: load_config     *)
(* sets the sample rate and the band gains (a gain of the file is taken  *)
(* as it is) before _init_equalizer_filters runs; one or two channels,   *)
(* and two chunks of ChunkFrames frames about to arrive, the second of   *)
(* one sample value throughout.                                           *)
InitEq ==
    /\ \E rate \in {LowRate, HighRate} :
           SlidersAt(rate, RecordTimeMs, StopTimeMs, DeadTimeMs)
    /\ RestButAudio
    /\ equalizer_enabled = TRUE
    /\ eq_gains \in [EqBands -> {0, 1, HugeGain}]
    /\ eq_filter_states = [band \in EqBands |-> <<0, 0>>]
    /\ eq_filter_states_right = [band \in EqBands |-> <<0, 0>>]
    /\ eq_filter_sos = InitialSos(RATE)
    /\ input_channels \in {1, 2}
    /\ output_channels = input_channels
    /\ \E first \in [1..(ChunkFrames * input_channels) -> {-32768, 12000, 32767}] :
          \E second \in {-32768, 12000, 32767} :
             signal = <<first, [i \in 1..(ChunkFrames * input_channels) |-> second]>>

(* The rate is changed, the sliders of the bands are moved, chunks are   *)
(* captured and played back through the equalizer.                       *)
NextEq ==
    \/ \E rate \in {LowRate, HighRate} : on_sample_rate_changed(rate)
    \/ \E band \in EqBands, gain_db \in {0, 1} : eq_scale(band, gain_db)
    \/ capture_chunk
    \/ play_chunk

SpecEq == InitEq /\ [][NextEq]_vars


(* C38: in apply_equalizer a band whose centre frequency is at or above  *)
(* 0.95 times the Nyquist frequency of the current sample rate is        *)
(* bypassed, whatever its gain: the loop over the bands gives the signal *)
(* it gives without that band, and the band's filter state is left as it *)
(* was, for every chunk captured.                                         *)
C38_HighBandBypassed ==
    \A i \in DOMAIN audio_buffer : \A band \in EqBands :
        (equalizer_enabled /\ 40 * band >= 19 * RATE)
        => /\ BandLoop(EqBands, audio_buffer[i]).filtered
                 = BandLoop(EqBands \ {band}, audio_buffer[i]).filtered
           /\ apply_equalizer(audio_buffer[i]).states[band] = eq_filter_states[band]
           /\ apply_equalizer(audio_buffer[i]).right[band]
                 = eq_filter_states_right[band]

(* the band at 6000 Hz has a gain and still holds a section, the rate    *)
(* having been lowered to 8000 Hz; the band at 1000 Hz has filtered a    *)
(* chunk, and a chunk waits to be played back                             *)
C38_Witness ==
    /\ equalizer_enabled
    /\ RATE = LowRate
    /\ eq_gains[6000] = 1
    /\ eq_filter_sos[6000] = "sos"
    /\ eq_gains[1000] = 1
    /\ eq_filter_states[1000] # <<0, 0>>
    /\ audio_buffer # <<>>


(* C39: after any sequence of sample-rate changes a band with a gain     *)
(* other than 0 dB whose centre frequency is below 0.95 times the        *)
(* Nyquist frequency of the current rate is filtered, not bypassed: the  *)
(* loop over the bands, which skips a band without a section, finds or   *)
(* makes a section for it, for every chunk captured.                      *)
C39_BandActiveAgain ==
    \A i \in DOMAIN audio_buffer : \A band \in EqBands :
        (/\ equalizer_enabled
         /\ eq_gains[band] # 0
         /\ 40 * band < 19 * RATE)
        => apply_equalizer(audio_buffer[i]).sos[band] # "None"


(* ----------------------- a filter output not finite -------------------- *)

(* the band whose output for the chunk is not finite: it has a section   *)
(* and a gain, lies below the limit, no band before it has ended the     *)
(* loop, and its filter, run on what the bands before it give, leaves    *)
(* the range of the floats                                                *)
RECURSIVE NonFiniteBand(_, _)
NonFiniteBand(band, audio_data) ==
    LET before == {c \in EqBands : c < band}
        acc == BandLoop(before, audio_data)
        is_stereo == input_channels = 2 /\ Len(audio_data) > ChunkFrames
    IN  /\ equalizer_enabled
        /\ eq_filter_sos[band] # "None"
        /\ eq_gains[band] # 0
        /\ 40 * band < 19 * RATE
        /\ \A c \in before : ~NonFiniteBand(c, audio_data)
        /\ \/ NonFinite(sosfilt(Sos(eq_gains[band]),
                                 IF is_stereo THEN LeftOf(acc.filtered)
                                 ELSE acc.filtered,
                                 acc.states[band]).filtered)
           \/ /\ is_stereo
              /\ NonFinite(sosfilt(Sos(eq_gains[band]), RightOf(acc.filtered),
                                    acc.right[band]).filtered)

(* every band leaves every chunk captured within the range of the floats *)
FiniteOutputs ==
    \A i \in DOMAIN audio_buffer : \A band \in EqBands :
        ~NonFiniteBand(band, audio_buffer[i])

====
